---- MODULE Spec2Model ----
(***************************************************************************)
(* Model of the database agent: the bounded tool-calling loop started by   *)
(* queryCommand -> databaseAgent (generateText with stopWhen               *)
(* stepCountIs(15)), the tools the loop can execute, and the request       *)
(* segmenter analyze_request.                                              *)
(***************************************************************************)
EXTENDS Integers, Sequences, FiniteSets, TLC

(***************************************************************************)
(* Program constants and bounds                                            *)
(***************************************************************************)

\* stopWhen: stepCountIs(15)
StepBudget == 15

\* Guard on the step counter so that a loop whose stop condition were never
\* met stays finite; the loop as written never reaches it.
StepCap == StepBudget + 2

\* Longest request text tried on analyze_request, counted in fragments.
MaxFragments == 3

\* The two entities of the request
\* "Can you store the 'Made for you' and 'Popular albums' in a table".
Entities == {"made_for_you_playlists", "popular_albums"}

\* The lifecycle stages of one entity, in workflow order.
Stages == <<"schema", "migration-generate", "migration-apply", "endpoint", "hook">>

\* z.enum(["generate", "migrate", "push"])
MigrationActions == {"generate", "migrate", "push"}


(***************************************************************************)
(* Text: a string is a sequence of one-character strings, so that          *)
(* toLowerCase and includes are computed character by character.           *)
(***************************************************************************)

UpperLetters ==
    <<"A","B","C","D","E","F","G","H","I","J","K","L","M",
      "N","O","P","Q","R","S","T","U","V","W","X","Y","Z">>

LowerLetters ==
    <<"a","b","c","d","e","f","g","h","i","j","k","l","m",
      "n","o","p","q","r","s","t","u","v","w","x","y","z">>

\* String.prototype.toLowerCase, one character
LowerChar(c) ==
    IF \E i \in 1..Len(UpperLetters) : UpperLetters[i] = c
    THEN LowerLetters[CHOOSE i \in 1..Len(UpperLetters) : UpperLetters[i] = c]
    ELSE c

\* String.prototype.toLowerCase
ToLowerCase(s) == [i \in 1..Len(s) |-> LowerChar(s[i])]

\* String.prototype.includes: needle occurs in hay as a contiguous substring
Includes(hay, needle) ==
    \E i \in 0..(Len(hay) - Len(needle)) :
        \A j \in 1..Len(needle) : hay[i + j] = needle[j]

\* "made for you"
TriggerMadeForYou ==
    <<"m","a","d","e"," ","f","o","r"," ","y","o","u">>

\* "popular albums"
TriggerPopularAlbums ==
    <<"p","o","p","u","l","a","r"," ","a","l","b","u","m","s">>

\* "popular album"
TriggerPopularAlbum ==
    <<"p","o","p","u","l","a","r"," ","a","l","b","u","m">>

\* "recently played"
TriggerRecentlyPlayed ==
    <<"r","e","c","e","n","t","l","y"," ","p","l","a","y","e","d">>

\* "recent"
TriggerRecent ==
    <<"r","e","c","e","n","t">>

\* "album"
KeywordAlbum ==
    <<"a","l","b","u","m">>

\* "albums"
KeywordAlbums ==
    <<"a","l","b","u","m","s">>

\* "Can you store the recently played songs in a table"
RequestRecentlyPlayed ==
    <<"C","a","n"," ","y","o","u"," ","s","t","o","r","e"," ","t","h","e",
      " ","r","e","c","e","n","t","l","y"," ","p","l","a","y","e","d"," ",
      "s","o","n","g","s"," ","i","n"," ","a"," ","t","a","b","l","e">>

\* "Can you store the 'Made for you' and 'Popular albums' in a table"
RequestMadeForYouAndPopular ==
    <<"C","a","n"," ","y","o","u"," ","s","t","o","r","e"," ","t","h","e",
      " ","'","M","a","d","e"," ","f","o","r"," ","y","o","u","'"," ","a",
      "n","d"," ","'","P","o","p","u","l","a","r"," ","a","l","b","u","m",
      "s","'"," ","i","n"," ","a"," ","t","a","b","l","e">>

\* "Made For You"
FragMadeForYou ==
    <<"M","a","d","e"," ","F","o","r"," ","Y","o","u">>

\* "Popular Albums"
FragPopularAlbums ==
    <<"P","o","p","u","l","a","r"," ","A","l","b","u","m","s">>

\* "popular "
FragPopular ==
    <<"p","o","p","u","l","a","r"," ">>

\* "ALBUMS"
FragAlbumsUpper ==
    <<"A","L","B","U","M","S">>

\* "Recently played"
FragRecentlyPlayed ==
    <<"R","e","c","e","n","t","l","y"," ","p","l","a","y","e","d">>

\* "recent hits"
FragRecentHits ==
    <<"r","e","c","e","n","t"," ","h","i","t","s">>

\* " and "
FragAnd ==
    <<" ","a","n","d"," ">>

\* "songs"
FragSongs ==
    <<"s","o","n","g","s">>


(***************************************************************************)
(* analyze_request: the trigger table and its entity templates             *)
(***************************************************************************)

\* A field without a constraints property carries no constraint.
Field(n, t, c) == [name |-> n, type |-> t, constraints |-> c]

MadeForYouPlaylists ==
    [name |-> "made_for_you_playlists",
     description |-> "Personalized playlists curated for the user",
     fields |-> << Field("title", "varchar", <<"notNull">>),
                   Field("description", "text", <<>>),
                   Field("imageUrl", "varchar", <<>>),
                   Field("playlistType", "varchar", <<>>),
                   Field("trackCount", "integer", <<>>) >>]

PopularAlbums ==
    [name |-> "popular_albums",
     description |-> "Popular albums trending or featured",
     fields |-> << Field("title", "varchar", <<"notNull">>),
                   Field("artist", "varchar", <<"notNull">>),
                   Field("imageUrl", "varchar", <<>>),
                   Field("releaseYear", "integer", <<>>),
                   Field("genre", "varchar", <<>>),
                   Field("popularity", "integer", <<>>) >>]

\* Mutant of RecentlyPlayedSongs: album and duration are listed the other way
\* round.
RecentlyPlayedSongsReordered ==
    [name |-> "recently_played_songs",
     description |-> "Songs recently played by the user",
     fields |-> << Field("title", "varchar", <<"notNull">>),
                   Field("artist", "varchar", <<"notNull">>),
                   Field("duration", "integer", <<>>),
                   Field("album", "varchar", <<>>),
                   Field("playedAt", "timestamp", <<"notNull">>) >>]

RecentlyPlayedSongs ==
    [name |-> "recently_played_songs",
     description |-> "Songs recently played by the user",
     fields |-> << Field("title", "varchar", <<"notNull">>),
                   Field("artist", "varchar", <<"notNull">>),
                   Field("album", "varchar", <<>>),
                   Field("duration", "integer", <<>>),
                   Field("playedAt", "timestamp", <<"notNull">>) >>]

Albums ==
    [name |-> "albums",
     description |-> "General album information",
     fields |-> << Field("title", "varchar", <<"notNull">>),
                   Field("artist", "varchar", <<"notNull">>),
                   Field("imageUrl", "varchar", <<>>),
                   Field("category", "varchar", <<>>) >>]

\* request.includes("made for you")
MatchesMadeForYou(req) == Includes(req, TriggerMadeForYou)

\* request.includes("popular albums") || request.includes("popular album")
MatchesPopularAlbums(req) ==
    Includes(req, TriggerPopularAlbums) \/ Includes(req, TriggerPopularAlbum)

\* request.includes("recently played") || request.includes("recent")
MatchesRecentlyPlayed(req) ==
    Includes(req, TriggerRecentlyPlayed) \/ Includes(req, TriggerRecent)

\* Mutant of FallbackApplies: the test that nothing has matched is left out.
FallbackWithoutEmptyTest(req, entities) ==
    Includes(req, KeywordAlbum) \/ Includes(req, KeywordAlbums)

\* Mutant of FallbackApplies: only the plural keyword is tested.
FallbackOnlyPlural(req, entities) ==
    Includes(req, KeywordAlbums) /\ Len(entities) = 0

\* Mutant of FallbackApplies: the keyword test is left out, so that a request
\* matching nothing still gets the generic entity.
FallbackWithoutKeyword(req, entities) == Len(entities) = 0

\* (request.includes("album") && entities.length === 0) ||
\* (request.includes("albums") && entities.length === 0)
FallbackApplies(req, entities) ==
    \/ (Includes(req, KeywordAlbum) /\ Len(entities) = 0)
    \/ (Includes(req, KeywordAlbums) /\ Len(entities) = 0)

\* entities.push(template) when the condition holds
PushIf(cond, entities, template) ==
    IF cond THEN Append(entities, template) ELSE entities

\* analyze_request.execute({ userRequest })
AnalyzeRequest(userRequest) ==
    LET req == ToLowerCase(userRequest)
        e1 == PushIf(MatchesMadeForYou(req), <<>>, MadeForYouPlaylists)
        e2 == PushIf(MatchesPopularAlbums(req), e1, PopularAlbums)
        e3 == PushIf(MatchesRecentlyPlayed(req), e2, RecentlyPlayedSongs)
        e4 == PushIf(FallbackApplies(req, e3), e3, Albums)
    IN  [success |-> TRUE,
         entitiesFound |-> Len(e4),
         entities |-> e4,
         recommendation |->
             IF Len(e4) > 1
             THEN "Multiple entities detected. Create separate tables for each."
             ELSE "Single entity detected."]

\* No analyze_request result yet.
NoAnalysis ==
    [success |-> FALSE, entitiesFound |-> 0, entities |-> <<>>,
     recommendation |-> "none"]

\* The names of the entities of an analyze_request result, in result order.
EntityNames(result) == [i \in 1..Len(result.entities) |-> result.entities[i].name]

VARIABLES
    request,          \* the text given to the query command
    analysis,         \* the latest analyze_request result (NoAnalysis before)
    state,            \* position of the run: AwaitingEngine, Done, Failed, Exited
    stepCount,        \* result.steps.length, the sequence number of the last step
    lastObservation,  \* what the last step appended to the history
    dryRun,           \* the --dry-run option of the query command
    interrupted,      \* SIGINT has been delivered to the process
    schemaFile,       \* src/database/schemas/<e>.ts exists
    endpointFile,     \* src/app/api/<e>/route.ts exists
    hookFile,         \* src/hooks/use<e>.ts exists
    generated,        \* entities whose schema a successful "generate" has seen
    applied,          \* entities whose table a successful "migrate"/"push" created
    input,            \* the arguments a compiler tool is called with
    diskWritable,     \* fs.writeFileSync succeeds (FALSE: it throws)
    files,            \* the generated files on disk: path -> content
    callsLeft,        \* compiler calls the scenario still makes
    first,            \* the first compiler call of the scenario and what it wrote
    last,             \* the latest compiler call of the scenario and what it wrote
    readOnly,         \* paths whose file cannot be written
    route,            \* a generated route module: its table and its last response
    hook,             \* a mounted generated hook: its state and requests in flight
    migration,        \* the latest migration process and the tool's result
    spinner           \* a spinner made by createSpinner and the timers it set

compVars == <<input, diskWritable, files, callsLeft, first, last>>

unitVars == <<readOnly, route, hook, migration, spinner>>

vars == <<request, analysis, state, stepCount, lastObservation, dryRun, interrupted,
          schemaFile, endpointFile, hookFile, generated, applied, compVars,
          unitVars>>

fsVars == <<schemaFile, endpointFile, hookFile, generated, applied>>

Observations == {"none", "success", "failure", "tool-error", "text"}

TypeOK ==
    /\ state \in {"AwaitingEngine", "Done", "Failed", "Exited"}
    /\ stepCount \in 0..StepCap
    /\ lastObservation \in Observations
    /\ dryRun \in BOOLEAN
    /\ interrupted \in BOOLEAN
    /\ schemaFile \in [Entities -> BOOLEAN]
    /\ endpointFile \in [Entities -> BOOLEAN]
    /\ hookFile \in [Entities -> BOOLEAN]
    /\ generated \subseteq Entities
    /\ applied \subseteq Entities
    /\ diskWritable \in BOOLEAN
    /\ callsLeft \in Nat
    /\ first.tool = "none" <=> last.tool = "none"

(***************************************************************************)
(* queryCommand / databaseAgent                                            *)
(***************************************************************************)

\* The state of a run before its first step: nothing observed, no file.
FreshRun ==
    /\ analysis = NoAnalysis
    /\ state = "AwaitingEngine"
    /\ stepCount = 0
    /\ lastObservation = "none"
    /\ interrupted = FALSE
    /\ schemaFile = [e \in Entities |-> FALSE]
    /\ endpointFile = [e \in Entities |-> FALSE]
    /\ hookFile = [e \in Entities |-> FALSE]
    /\ generated = {}
    /\ applied = {}

\* No compiler call is recorded.
NoCall == [tool |-> "none"]

\* The compiler scenario variables when no compiler scenario is played.
CompilerIdle ==
    /\ input = [tool |-> "none"]
    /\ diskWritable = TRUE
    /\ files = <<>>
    /\ callsLeft = 0
    /\ first = NoCall
    /\ last = NoCall

\* No generated route module is deployed.
NoRoute == [deployed |-> FALSE]

\* No generated hook is mounted.
NoHook == [mounted |-> FALSE]

\* No migration process has run.
NoMigration == [action |-> "none"]

\* No spinner has been made.
NoSpinner == [made |-> FALSE]

\* Every file can be written and no route, hook, migration or spinner
\* scenario is played.
UnitsIdle ==
    /\ readOnly = {}
    /\ route = NoRoute
    /\ hook = NoHook
    /\ migration = NoMigration
    /\ spinner = NoSpinner

\* queryCommand(text, options): dryRun only changes the prompt text; the tool
\* catalogue handed to generateText is the same in both cases.
Init ==
    /\ request = RequestMadeForYouAndPopular
    /\ dryRun \in BOOLEAN
    /\ FreshRun
    /\ CompilerIdle
    /\ UnitsIdle

\* Mutant of StopWhen: the stop condition is never met.
StopWhenNever(n) == FALSE

\* stopWhen: stepCountIs(15)
StopWhen(n) == n = StepBudget

\* The loop may issue a step: the run is waiting for the engine.
CanStep == state = "AwaitingEngine" /\ stepCount < StepCap

\* Mutant of Advance: reaching the budget is raised as an error.
AdvanceBudgetIsError(obs) ==
    /\ stepCount' = stepCount + 1
    /\ lastObservation' = obs
    /\ state' = IF StopWhen(stepCount + 1) THEN "Failed" ELSE "AwaitingEngine"
    /\ UNCHANGED <<compVars, unitVars, request, dryRun, interrupted>>

\* One tool step has been executed and its observation appended: the step is
\* counted and the loop goes on unless the stop condition is met.
Advance(obs) ==
    /\ stepCount' = stepCount + 1
    /\ lastObservation' = obs
    /\ state' = IF StopWhen(stepCount + 1) THEN "Done" ELSE "AwaitingEngine"
    /\ UNCHANGED <<compVars, unitVars, request, dryRun, interrupted>>

\* A tool returns { success: true, ... } or, from its catch block,
\* { success: false, error }.
Outcome(ok) == IF ok THEN "success" ELSE "failure"

\* The engine answers with text and no tool call: the loop ends.
FinalAnswer ==
    /\ CanStep
    /\ stepCount' = stepCount + 1
    /\ lastObservation' = "text"
    /\ state' = "Done"
    /\ UNCHANGED <<compVars, unitVars, request, analysis, dryRun, interrupted, fsVars>>

\* The engine call throws (API key, network): queryCommand's catch block
\* reports the failure and exits with status 1.
EngineError ==
    /\ CanStep
    /\ state' = "Failed"
    /\ UNCHANGED <<compVars, unitVars, request, analysis, stepCount, lastObservation, dryRun,
                   interrupted, fsVars>>

\* Mutant of Interrupt: the handler logs and returns without exiting.
InterruptWithoutExit ==
    /\ state = "AwaitingEngine"
    /\ interrupted' = TRUE
    /\ UNCHANGED <<compVars, unitVars, request, analysis, state, stepCount, lastObservation, dryRun, fsVars>>

\* process.on("SIGINT"): process.exit(0)
Interrupt ==
    /\ state = "AwaitingEngine"
    /\ interrupted' = TRUE
    /\ state' = "Exited"
    /\ UNCHANGED <<compVars, unitVars, request, analysis, stepCount, lastObservation, dryRun, fsVars>>

(***************************************************************************)
(* Tool steps: the engine proposes a call, the loop executes the tool       *)
(***************************************************************************)

\* analyze_request({ userRequest })
AnalyzeRequestStep ==
    /\ CanStep
    /\ analysis' = AnalyzeRequest(request)
    /\ Advance("success")
    /\ UNCHANGED fsVars

\* create_schema({ tableName: e, fields }): writeFileSync, or the catch block
CreateSchemaStep(e) ==
    /\ CanStep
    /\ \E ok \in BOOLEAN :
          /\ schemaFile' = [schemaFile EXCEPT ![e] = @ \/ ok]
          /\ Advance(Outcome(ok))
    /\ UNCHANGED <<analysis, endpointFile, hookFile, generated, applied>>

\* create_multiple_schemas({ entities: S }): one write per entity, each in
\* its own try block; written is the set of entities whose write succeeded.
CreateMultipleSchemasStep(S) ==
    /\ CanStep
    /\ \E written \in SUBSET S :
          /\ schemaFile' = [e \in Entities |-> schemaFile[e] \/ e \in written]
          /\ Advance(Outcome(written = S))
    /\ UNCHANGED <<analysis, endpointFile, hookFile, generated, applied>>

\* The entities whose schema file exists.
SchemasOnDisk == {e \in Entities : schemaFile[e]}

\* run_migration({ action }): npx drizzle-kit <action>; a zero exit resolves to
\* success, a non-zero exit is caught and returned as success: false.
RunMigrationStep(action) ==
    /\ CanStep
    /\ \E ok \in BOOLEAN :
          /\ generated' = IF ok /\ action = "generate"
                          THEN generated \cup SchemasOnDisk ELSE generated
          /\ applied' = IF ok /\ action = "migrate" THEN applied \cup generated
                        ELSE IF ok /\ action = "push" THEN applied \cup SchemasOnDisk
                        ELSE applied
          /\ Advance(Outcome(ok))
    /\ UNCHANGED <<analysis, schemaFile, endpointFile, hookFile>>

\* create_api_endpoint({ endpoint, methods, tableName: e })
CreateApiEndpointStep(e) ==
    /\ CanStep
    /\ \E ok \in BOOLEAN :
          /\ endpointFile' = [endpointFile EXCEPT ![e] = @ \/ ok]
          /\ Advance(Outcome(ok))
    /\ UNCHANGED <<analysis, schemaFile, hookFile, generated, applied>>

\* create_api_client_hook({ endpoint, tableName: e })
CreateApiClientHookStep(e) ==
    /\ CanStep
    /\ \E ok \in BOOLEAN :
          /\ hookFile' = [hookFile EXCEPT ![e] = @ \/ ok]
          /\ Advance(Outcome(ok))
    /\ UNCHANGED <<analysis, schemaFile, endpointFile, generated, applied>>

\* list_files / read_file: a result or an error object, no write
ReadOnlyToolStep ==
    /\ CanStep
    /\ \E ok \in BOOLEAN : Advance(Outcome(ok))
    /\ UNCHANGED <<analysis, fsVars>>

\* Mutant of InvalidInputStep: the validation error is thrown out of the loop.
InvalidInputThrows ==
    /\ CanStep
    /\ lastObservation' = "tool-error"
    /\ state' = "Failed"
    /\ UNCHANGED <<compVars, unitVars, request, analysis, stepCount, dryRun, interrupted, fsVars>>

\* A proposed call whose input fails the tool's inputSchema: the tool's
\* execute is not run; the error is appended as the call's observation.
InvalidInputStep ==
    /\ CanStep
    /\ Advance("tool-error")
    /\ UNCHANGED <<analysis, fsVars>>

ToolStep ==
    \/ AnalyzeRequestStep
    \/ \E e \in Entities : CreateSchemaStep(e)
    \/ \E S \in SUBSET Entities : CreateMultipleSchemasStep(S)
    \/ \E a \in MigrationActions : RunMigrationStep(a)
    \/ \E e \in Entities : CreateApiEndpointStep(e)
    \/ \E e \in Entities : CreateApiClientHookStep(e)
    \/ ReadOnlyToolStep
    \/ InvalidInputStep

Next ==
    \/ ToolStep
    \/ FinalAnswer
    \/ EngineError
    \/ Interrupt

Spec == Init /\ [][Next]_vars

(***************************************************************************)
(* analyze_request called on its own, on request texts built from          *)
(* fragments                                                               *)
(***************************************************************************)

Fragments ==
    {FragMadeForYou, FragPopularAlbums, FragPopular, FragAlbumsUpper,
     KeywordAlbum, FragRecentlyPlayed, FragRecentHits, FragAnd, FragSongs}

RECURSIVE Flatten(_)
\* The fragments of a list joined into one text.
Flatten(fs) == IF fs = <<>> THEN <<>> ELSE Head(fs) \o Flatten(Tail(fs))

Requests ==
    {Flatten(fs) : fs \in UNION {[1..n -> Fragments] : n \in 0..MaxFragments}}
        \cup {RequestRecentlyPlayed, RequestMadeForYouAndPopular}

SegInit ==
    /\ request \in Requests
    /\ dryRun = FALSE
    /\ FreshRun
    /\ CompilerIdle
    /\ UnitsIdle

\* analyze_request.execute({ userRequest: request })
AnalyzeCall ==
    /\ analysis = NoAnalysis
    /\ analysis' = AnalyzeRequest(request)
    /\ UNCHANGED <<compVars, unitVars, request, state, stepCount, lastObservation, dryRun,
                   interrupted, fsVars>>

SegNext == AnalyzeCall

SegSpec == SegInit /\ [][SegNext]_vars

(***************************************************************************)
(* Schema, endpoint and hook generation (create_schema,                    *)
(* create_multiple_schemas, create_api_endpoint, create_api_client_hook).  *)
(* A generated file is a sequence of lines, a line a sequence of           *)
(* characters; the lines of a handler or hook body that interpolate        *)
(* nothing are left out.                                                   *)
(***************************************************************************)

\* import { pgTable, serial, text, timestamp, varchar, integer, boolean } from 'drizzle-orm/pg-core';
ImportsCreateSchema ==
    <<"i","m","p","o","r","t"," ","{"," ","p","g","T","a","b","l","e",","," ",
      "s","e","r","i","a","l",","," ","t","e","x","t",","," ","t","i","m","e",
      "s","t","a","m","p",","," ","v","a","r","c","h","a","r",","," ","i","n",
      "t","e","g","e","r",","," ","b","o","o","l","e","a","n"," ","}"," ","f",
      "r","o","m"," ","'","d","r","i","z","z","l","e","-","o","r","m","/","p",
      "g","-","c","o","r","e","'",";">>

\* export const
TxtExportConst ==
    <<"e","x","p","o","r","t"," ","c","o","n","s","t"," ">>

\*  = pgTable('
TxtPgTableS ==
    <<" ","="," ","p","g","T","a","b","l","e","(","'">>

\* ', {
TxtOpenS ==
    <<"'",","," ","{">>

\*   id: serial('id').primaryKey(),
LineIdS ==
    <<" "," ","i","d",":"," ","s","e","r","i","a","l","(","'","i","d","'",")",
      ".","p","r","i","m","a","r","y","K","e","y","(",")",",">>

\*   createdAt: timestamp('created_at').defaultNow().notNull(),
LineCreatedAtS ==
    <<" "," ","c","r","e","a","t","e","d","A","t",":"," ","t","i","m","e","s",
      "t","a","m","p","(","'","c","r","e","a","t","e","d","_","a","t","'",")",
      ".","d","e","f","a","u","l","t","N","o","w","(",")",".","n","o","t","N",
      "u","l","l","(",")",",">>

\*   updatedAt: timestamp('updated_at').defaultNow().notNull(),
LineUpdatedAtS ==
    <<" "," ","u","p","d","a","t","e","d","A","t",":"," ","t","i","m","e","s",
      "t","a","m","p","(","'","u","p","d","a","t","e","d","_","a","t","'",")",
      ".","d","e","f","a","u","l","t","N","o","w","(",")",".","n","o","t","N",
      "u","l","l","(",")",",">>

\* });
LineClose ==
    <<"}",")",";">>

\* export type
TxtExportType ==
    <<"e","x","p","o","r","t"," ","t","y","p","e"," ">>

\* New
TxtNew ==
    <<"N","e","w">>

\*  = typeof
TxtTypeof ==
    <<" ","="," ","t","y","p","e","o","f"," ">>

\* .$inferSelect;
TxtInferSelect ==
    <<".","$","i","n","f","e","r","S","e","l","e","c","t",";">>

\* .$inferInsert;
TxtInferInsert ==
    <<".","$","i","n","f","e","r","I","n","s","e","r","t",";">>

\* import { pgTable, serial, text, timestamp, varchar, integer, boolean } from "drizzle-orm/pg-core";
ImportsMultipleSchemas ==
    <<"i","m","p","o","r","t"," ","{"," ","p","g","T","a","b","l","e",","," ",
      "s","e","r","i","a","l",","," ","t","e","x","t",","," ","t","i","m","e",
      "s","t","a","m","p",","," ","v","a","r","c","h","a","r",","," ","i","n",
      "t","e","g","e","r",","," ","b","o","o","l","e","a","n"," ","}"," ","f",
      "r","o","m"," ","\"","d","r","i","z","z","l","e","-","o","r","m","/",
      "p","g","-","c","o","r","e","\"",";">>

\* import { createInsertSchema, createSelectSchema } from "drizzle-zod";
ImportsDrizzleZod ==
    <<"i","m","p","o","r","t"," ","{"," ","c","r","e","a","t","e","I","n","s",
      "e","r","t","S","c","h","e","m","a",","," ","c","r","e","a","t","e","S",
      "e","l","e","c","t","S","c","h","e","m","a"," ","}"," ","f","r","o","m",
      " ","\"","d","r","i","z","z","l","e","-","z","o","d","\"",";">>

\*  = pgTable("
TxtPgTableD ==
    <<" ","="," ","p","g","T","a","b","l","e","(","\"">>

\* ", {
TxtOpenD ==
    <<"\"",","," ","{">>

\*   id: serial("id").primaryKey(),
LineIdD ==
    <<" "," ","i","d",":"," ","s","e","r","i","a","l","(","\"","i","d","\"",
      ")",".","p","r","i","m","a","r","y","K","e","y","(",")",",">>

\*   createdAt: timestamp("created_at").defaultNow().notNull(),
LineCreatedAtD ==
    <<" "," ","c","r","e","a","t","e","d","A","t",":"," ","t","i","m","e","s",
      "t","a","m","p","(","\"","c","r","e","a","t","e","d","_","a","t","\"",
      ")",".","d","e","f","a","u","l","t","N","o","w","(",")",".","n","o","t",
      "N","u","l","l","(",")",",">>

\*   updatedAt: timestamp("updated_at").defaultNow().notNull(),
LineUpdatedAtD ==
    <<" "," ","u","p","d","a","t","e","d","A","t",":"," ","t","i","m","e","s",
      "t","a","m","p","(","\"","u","p","d","a","t","e","d","_","a","t","\"",
      ")",".","d","e","f","a","u","l","t","N","o","w","(",")",".","n","o","t",
      "N","u","l","l","(",")",",">>

\* // Zod schemas for validation
LineZodComment ==
    <<"/","/"," ","Z","o","d"," ","s","c","h","e","m","a","s"," ","f","o","r",
      " ","v","a","l","i","d","a","t","i","o","n">>

\* insert
TxtInsert ==
    <<"i","n","s","e","r","t">>

\* select
TxtSelect ==
    <<"s","e","l","e","c","t">>

\* Insert
TxtInsertCap ==
    <<"I","n","s","e","r","t">>

\* Select
TxtSelectCap ==
    <<"S","e","l","e","c","t">>

\* Schema = createInsertSchema(
TxtCreateInsertSchema ==
    <<"S","c","h","e","m","a"," ","="," ","c","r","e","a","t","e","I","n","s",
      "e","r","t","S","c","h","e","m","a","(">>

\* Schema = createSelectSchema(
TxtCreateSelectSchema ==
    <<"S","c","h","e","m","a"," ","="," ","c","r","e","a","t","e","S","e","l",
      "e","c","t","S","c","h","e","m","a","(">>

\* );
TxtCloseCall ==
    <<")",";">>

\*
TxtIndent ==
    <<" "," ">>

\* :
TxtColon ==
    <<":"," ">>

\* ,
TxtComma ==
    <<",">>

\* varchar(255)
ColVarchar ==
    <<"v","a","r","c","h","a","r","(","2","5","5",")">>

\* text()
ColText ==
    <<"t","e","x","t","(",")">>

\* integer()
ColInteger ==
    <<"i","n","t","e","g","e","r","(",")">>

\* boolean()
ColBoolean ==
    <<"b","o","o","l","e","a","n","(",")">>

\* timestamp()
ColTimestamp ==
    <<"t","i","m","e","s","t","a","m","p","(",")">>

\* .notNull()
MarkNotNull ==
    <<".","n","o","t","N","u","l","l","(",")">>

\* .primaryKey()
MarkPrimaryKey ==
    <<".","p","r","i","m","a","r","y","K","e","y","(",")">>

\* .unique()
MarkUnique ==
    <<".","u","n","i","q","u","e","(",")">>

\* src/database/schemas
DefaultSchemaPath ==
    <<"s","r","c","/","d","a","t","a","b","a","s","e","/","s","c","h","e","m",
      "a","s">>

\* /
TxtSlash ==
    <<"/">>

\* .ts
TxtDotTs ==
    <<".","t","s">>

\* src/app/api
ApiDir ==
    <<"s","r","c","/","a","p","p","/","a","p","i">>

\* /route.ts
TxtRouteTs ==
    <<"/","r","o","u","t","e",".","t","s">>

\* src/hooks
HooksDir ==
    <<"s","r","c","/","h","o","o","k","s">>

\* use
TxtUse ==
    <<"u","s","e">>

\* import { NextRequest, NextResponse } from 'next/server';
LineImportNext ==
    <<"i","m","p","o","r","t"," ","{"," ","N","e","x","t","R","e","q","u","e",
      "s","t",","," ","N","e","x","t","R","e","s","p","o","n","s","e"," ","}",
      " ","f","r","o","m"," ","'","n","e","x","t","/","s","e","r","v","e","r",
      "'",";">>

\* import { db } from '@/database/connection';
LineImportDb ==
    <<"i","m","p","o","r","t"," ","{"," ","d","b"," ","}"," ","f","r","o","m",
      " ","'","@","/","d","a","t","a","b","a","s","e","/","c","o","n","n","e",
      "c","t","i","o","n","'",";">>

\* import {
TxtImportOpen ==
    <<"i","m","p","o","r","t"," ","{"," ">>

\*  } from '@/database/schemas/
TxtFromSchemas ==
    <<" ","}"," ","f","r","o","m"," ","'","@","/","d","a","t","a","b","a","s",
      "e","/","s","c","h","e","m","a","s","/">>

\* ';
TxtQuoteSemi ==
    <<"'",";">>

\* import { eq } from 'drizzle-orm';
LineImportEq ==
    <<"i","m","p","o","r","t"," ","{"," ","e","q"," ","}"," ","f","r","o","m",
      " ","'","d","r","i","z","z","l","e","-","o","r","m","'",";">>

\* export async function
TxtExportAsyncFunction ==
    <<"e","x","p","o","r","t"," ","a","s","y","n","c"," ","f","u","n","c","t",
      "i","o","n"," ">>

\* (request: NextRequest) {
TxtHandlerArgs ==
    <<"(","r","e","q","u","e","s","t",":"," ","N","e","x","t","R","e","q","u",
      "e","s","t",")"," ","{">>

\*     const results = await db.select().from(
TxtSelectFrom ==
    <<" "," "," "," ","c","o","n","s","t"," ","r","e","s","u","l","t","s"," ",
      "="," ","a","w","a","i","t"," ","d","b",".","s","e","l","e","c","t","(",
      ")",".","f","r","o","m","(">>

\*     const result = await db.insert(
TxtInsertInto ==
    <<" "," "," "," ","c","o","n","s","t"," ","r","e","s","u","l","t"," ","=",
      " ","a","w","a","i","t"," ","d","b",".","i","n","s","e","r","t","(">>

\* ).values(body).returning();
TxtValuesReturning ==
    <<")",".","v","a","l","u","e","s","(","b","o","d","y",")",".","r","e","t",
      "u","r","n","i","n","g","(",")",";">>

\*       .update(
TxtUpdate ==
    <<" "," "," "," "," "," ",".","u","p","d","a","t","e","(">>

\* )
TxtCloseParen ==
    <<")">>

\*     await db.delete(
TxtDeleteFrom ==
    <<" "," "," "," ","a","w","a","i","t"," ","d","b",".","d","e","l","e","t",
      "e","(">>

\* ).where(eq(
TxtWhereEq ==
    <<")",".","w","h","e","r","e","(","e","q","(">>

\* .id, parseInt(id)));
TxtIdParseInt ==
    <<".","i","d",","," ","p","a","r","s","e","I","n","t","(","i","d",")",")",
      ")",";">>

\* }
LineBrace ==
    <<"}">>

\* import { useState, useEffect } from 'react';
LineImportReact ==
    <<"i","m","p","o","r","t"," ","{"," ","u","s","e","S","t","a","t","e",",",
      " ","u","s","e","E","f","f","e","c","t"," ","}"," ","f","r","o","m"," ",
      "'","r","e","a","c","t","'",";">>

\* export function
TxtExportFunction ==
    <<"e","x","p","o","r","t"," ","f","u","n","c","t","i","o","n"," ">>

\* () {
TxtHookArgs ==
    <<"(",")"," ","{">>

\*   const [data, setData] = useState<
TxtUseStateOpen ==
    <<" "," ","c","o","n","s","t"," ","[","d","a","t","a",","," ","s","e","t",
      "D","a","t","a","]"," ","="," ","u","s","e","S","t","a","t","e","<">>

\* []>([]);
TxtUseStateClose ==
    <<"[","]",">","(","[","]",")",";">>

\*       const response = await fetch('/api/
TxtFetchOpen ==
    <<" "," "," "," "," "," ","c","o","n","s","t"," ","r","e","s","p","o","n",
      "s","e"," ","="," ","a","w","a","i","t"," ","f","e","t","c","h","(","'",
      "/","a","p","i","/">>

\* ');
TxtFetchClose ==
    <<"'",")",";">>

\* albums
NameAlbums ==
    <<"a","l","b","u","m","s">>

\* popular_albums
NamePopularAlbumsSnake ==
    <<"p","o","p","u","l","a","r","_","a","l","b","u","m","s">>

\* popular albums
LabelPopularAlbumsLower ==
    <<"p","o","p","u","l","a","r"," ","a","l","b","u","m","s">>

\* Popular Albums
LabelPopularAlbumsTitle ==
    <<"P","o","p","u","l","a","r"," ","A","l","b","u","m","s">>

\* popular-albums
EndpointPopularAlbums ==
    <<"p","o","p","u","l","a","r","-","a","l","b","u","m","s">>

\* popularalbums
EndpointPopularalbums ==
    <<"p","o","p","u","l","a","r","a","l","b","u","m","s">>

\* db/schemas
AltSchemaPath ==
    <<"d","b","/","s","c","h","e","m","a","s">>

\* title
NameTitle ==
    <<"t","i","t","l","e">>

\* description
NameDescription ==
    <<"d","e","s","c","r","i","p","t","i","o","n">>

\* trackCount
NameTrackCount ==
    <<"t","r","a","c","k","C","o","u","n","t">>

\* label
NameLabel ==
    <<"l","a","b","e","l">>

\* rank
NameRank ==
    <<"r","a","n","k">>

\* active
NameActive ==
    <<"a","c","t","i","v","e">>

\* playedAt
NamePlayedAt ==
    <<"p","l","a","y","e","d","A","t">>

\* meta
NameMeta ==
    <<"m","e","t","a">>

\* slug
NameSlug ==
    <<"s","l","u","g">>

\* id
NameId ==
    <<"i","d">>

\* createdAt
NameCreatedAt ==
    <<"c","r","e","a","t","e","d","A","t">>

\* updatedAt
NameUpdatedAt ==
    <<"u","p","d","a","t","e","d","A","t">>

\* String.prototype.toUpperCase, one character
UpperChar(c) ==
    IF \E i \in 1..Len(LowerLetters) : LowerLetters[i] = c
    THEN UpperLetters[CHOOSE i \in 1..Len(LowerLetters) : LowerLetters[i] = c]
    ELSE c

\* s.charAt(0).toUpperCase() + s.slice(1)
Capitalize(s) == IF s = <<>> THEN <<>> ELSE <<UpperChar(s[1])>> \o Tail(s)

RECURSIVE Split(_, _)
\* s.split(sep) for a one-character separator: the pieces between separators
Split(s, sep) ==
    IF \A i \in 1..Len(s) : s[i] # sep
    THEN <<s>>
    ELSE LET k == CHOOSE i \in 1..Len(s) :
                      s[i] = sep /\ \A j \in 1..(i - 1) : s[j] # sep
         IN  <<SubSeq(s, 1, k - 1)>> \o Split(SubSeq(s, k + 1, Len(s)), sep)

\* words.map((word) => word.charAt(0).toUpperCase() + word.slice(1)).join("")
JoinCapitalized(words) ==
    Flatten([i \in 1..Len(words) |-> Capitalize(words[i])])

\* `use${endpoint.split("-").map(...).join("")}`
HookName(endpoint) == TxtUse \o JoinCapitalized(Split(endpoint, "-"))

\* Mutant of ColumnType: an unlisted type is a bounded string column.
ColumnTypeDefaultVarchar(type) ==
    CASE type \in {"string", "varchar"} -> ColVarchar
      [] type = "text" -> ColText
      [] type \in {"number", "integer"} -> ColInteger
      [] type = "boolean" -> ColBoolean
      [] type = "timestamp" -> ColTimestamp
      [] OTHER -> ColVarchar

\* create_schema: switch (field.type)
ColumnType(type) ==
    CASE type \in {"string", "varchar"} -> ColVarchar
      [] type = "text" -> ColText
      [] type \in {"number", "integer"} -> ColInteger
      [] type = "boolean" -> ColBoolean
      [] type = "timestamp" -> ColTimestamp
      [] OTHER -> ColText

\* create_multiple_schemas: switch (field.type)
ColumnTypeMultiple(type) ==
    CASE type = "varchar" -> ColVarchar
      [] type = "text" -> ColText
      [] type = "integer" -> ColInteger
      [] type = "boolean" -> ColBoolean
      [] type = "timestamp" -> ColTimestamp
      [] OTHER -> ColText

\* create_schema: switch (constraint), no default branch
Marker(constraint) ==
    CASE constraint = "notNull" -> MarkNotNull
      [] constraint = "primaryKey" -> MarkPrimaryKey
      [] constraint = "unique" -> MarkUnique
      [] OTHER -> <<>>

\* create_multiple_schemas: the two if statements on constraint
MarkerMultiple(constraint) ==
    CASE constraint = "notNull" -> MarkNotNull
      [] constraint = "primaryKey" -> MarkPrimaryKey
      [] OTHER -> <<>>

\* create_schema: one element of fields.map(...); a field without constraints
\* is a field with the empty list.
FieldDefinition(field) ==
    TxtIndent \o field.name \o TxtColon \o ColumnType(field.type)
        \o Flatten([i \in 1..Len(field.constraints) |-> Marker(field.constraints[i])])
        \o TxtComma

\* create_multiple_schemas: one element of entity.fields.map(...)
FieldDefinitionMultiple(field) ==
    TxtIndent \o field.name \o TxtColon \o ColumnTypeMultiple(field.type)
        \o Flatten([i \in 1..Len(field.constraints) |->
                        MarkerMultiple(field.constraints[i])])
        \o TxtComma

\* definitions.join("\n") placed on its own template line: no definition
\* leaves one empty line.
JoinedLines(definitions) == IF definitions = <<>> THEN << <<>> >> ELSE definitions

\* create_schema: schemaContent
SchemaContent(tableName, fields) ==
    << ImportsCreateSchema,
       <<>>,
       TxtExportConst \o tableName \o TxtPgTableS \o tableName \o TxtOpenS,
       LineIdS >>
    \o JoinedLines([i \in 1..Len(fields) |-> FieldDefinition(fields[i])])
    \o << LineCreatedAtS,
          LineUpdatedAtS,
          LineClose,
          <<>>,
          TxtExportType \o Capitalize(tableName) \o TxtTypeof \o tableName
              \o TxtInferSelect,
          TxtExportType \o TxtNew \o Capitalize(tableName) \o TxtTypeof
              \o tableName \o TxtInferInsert,
          <<>> >>

\* create_multiple_schemas: schemaContent of one entity
SchemaContentMultiple(tableName, fields) ==
    LET capitalizedName == Capitalize(tableName)
    IN  << ImportsMultipleSchemas,
           ImportsDrizzleZod,
           <<>>,
           TxtExportConst \o tableName \o TxtPgTableD \o tableName \o TxtOpenD,
           LineIdD >>
        \o JoinedLines([i \in 1..Len(fields) |-> FieldDefinitionMultiple(fields[i])])
        \o << LineCreatedAtD,
              LineUpdatedAtD,
              LineClose,
              <<>>,
              LineZodComment,
              TxtExportConst \o TxtInsert \o capitalizedName
                  \o TxtCreateInsertSchema \o tableName \o TxtCloseCall,
              TxtExportConst \o TxtSelect \o capitalizedName
                  \o TxtCreateSelectSchema \o tableName \o TxtCloseCall,
              <<>>,
              TxtExportType \o TxtInsertCap \o capitalizedName \o TxtTypeof
                  \o tableName \o TxtInferInsert,
              TxtExportType \o TxtSelectCap \o capitalizedName \o TxtTypeof
                  \o tableName \o TxtInferSelect,
              <<>> >>

\* The method name as text.
MethodText(method) ==
    CASE method = "GET" -> <<"G","E","T">>
      [] method = "POST" -> <<"P","O","S","T">>
      [] method = "PUT" -> <<"P","U","T">>
      [] method = "DELETE" -> <<"D","E","L","E","T","E">>

\* The first line of the handler of a method.
HandlerSignature(method) ==
    TxtExportAsyncFunction \o MethodText(method) \o TxtHandlerArgs

\* create_api_endpoint: switch (method), the handler of one method: its first
\* line, its storage statement, its last line.
MethodHandler(method, tableName) ==
    << HandlerSignature(method),
       CASE method = "GET" -> TxtSelectFrom \o tableName \o TxtCloseCall
         [] method = "POST" -> TxtInsertInto \o tableName \o TxtValuesReturning
         [] method = "PUT" -> TxtUpdate \o tableName \o TxtCloseParen
         [] method = "DELETE" ->
                TxtDeleteFrom \o tableName \o TxtWhereEq \o tableName
                    \o TxtIdParseInt,
       LineBrace >>

RECURSIVE JoinHandlers(_)
\* handlers.join("\n\n"): an empty line between two handlers; no handler
\* leaves one empty line.
JoinHandlers(handlers) ==
    IF handlers = <<>> THEN << <<>> >>
    ELSE IF Len(handlers) = 1 THEN Head(handlers)
    ELSE Head(handlers) \o << <<>> >> \o JoinHandlers(Tail(handlers))

\* create_api_endpoint: apiContent
ApiContent(methods, tableName) ==
    << LineImportNext,
       LineImportDb,
       TxtImportOpen \o tableName \o TxtFromSchemas \o tableName \o TxtQuoteSemi,
       LineImportEq,
       <<>> >>
    \o JoinHandlers([i \in 1..Len(methods) |-> MethodHandler(methods[i], tableName)])
    \o << <<>> >>

\* create_api_client_hook: hookContent (the lines that interpolate)
HookContent(endpoint, tableName) ==
    << LineImportReact,
       TxtImportOpen \o Capitalize(tableName) \o TxtFromSchemas \o tableName
           \o TxtQuoteSemi,
       <<>>,
       TxtExportFunction \o HookName(endpoint) \o TxtHookArgs,
       TxtUseStateOpen \o Capitalize(tableName) \o TxtUseStateClose,
       TxtFetchOpen \o endpoint \o TxtFetchClose,
       LineBrace,
       <<>> >>

\* create_schema: filePath
SchemaFilePath(schemaPath, tableName) ==
    schemaPath \o TxtSlash \o tableName \o TxtDotTs

\* create_multiple_schemas: schemaPath
SchemaFilePathMultiple(name) ==
    DefaultSchemaPath \o TxtSlash \o name \o TxtDotTs

\* create_api_endpoint: filePath
EndpointFilePath(endpoint) == ApiDir \o TxtSlash \o endpoint \o TxtRouteTs

\* create_api_client_hook: filePath
HookFilePath(endpoint) ==
    HooksDir \o TxtSlash \o ToLowerCase(HookName(endpoint)) \o TxtDotTs

\* Mutant of WriteFileSync: the content is appended to an existing file.
WriteFileAppending(fs, path, content) ==
    [p \in DOMAIN fs \cup {path} |->
        IF p = path
        THEN IF path \in DOMAIN fs THEN fs[path] \o content ELSE content
        ELSE fs[p]]

\* fs.writeFileSync(path, content): the file holds content, whatever it held
WriteFileSync(fs, path, content) ==
    [p \in DOMAIN fs \cup {path} |-> IF p = path THEN content ELSE fs[p]]

\* The longest field list of a compiled entity.
MaxFields == 2

\* The longest method list of a compiled endpoint.
MaxMethods == 2

\* The number of compiler calls of a scenario that compiles repeatedly.
MaxCalls == 3

\* z.enum(["GET", "POST", "PUT", "DELETE"])
Methods == {"GET", "POST", "PUT", "DELETE"}

\* Fields handed to the schema tools: every type string the tools name, one
\* they do not, every constraint alone, in both orders and beside the reserved
\* column names. Field names are texts here.
FieldPool ==
    { Field(NameTitle, "varchar", <<"notNull">>),
      Field(NameDescription, "text", <<>>),
      Field(NameTrackCount, "integer", <<"unique">>),
      Field(NameLabel, "string", <<>>),
      Field(NameRank, "number", <<"primaryKey">>),
      Field(NameActive, "boolean", <<>>),
      Field(NamePlayedAt, "timestamp", <<"notNull", "unique">>),
      Field(NameMeta, "json", <<"unique", "notNull">>),
      Field(NameSlug, "varchar", <<"unique", "primaryKey">>),
      Field(NameId, "varchar", <<>>),
      Field(NameCreatedAt, "timestamp", <<>>),
      Field(NameUpdatedAt, "text", <<>>) }

FieldLists == UNION {[1..n -> FieldPool] : n \in 0..MaxFields}

MethodLists == UNION {[1..n -> Methods] : n \in 0..MaxMethods}

\* Table names and labels handed to the tools as tableName.
TableNames ==
    {NameAlbums, NamePopularAlbumsSnake, LabelPopularAlbumsLower,
     LabelPopularAlbumsTitle}

\* Endpoint names handed to the tools as endpoint.
Endpoints == {NameAlbums, EndpointPopularAlbums, EndpointPopularalbums}

\* The arguments of the four tools in one record; a tool reads its own.
ToolInput(tableName, fields, schemaPath, endpoint, methods) ==
    [tableName |-> tableName, fields |-> fields, schemaPath |-> schemaPath,
     endpoint |-> endpoint, methods |-> methods]

\* Inputs that vary the schema arguments.
SchemaInputs ==
    {ToolInput(t, fs, p, NameAlbums, <<>>) :
        t \in {NameAlbums, NamePopularAlbumsSnake}, fs \in FieldLists,
        p \in {DefaultSchemaPath, AltSchemaPath}}

\* Inputs that vary the names and the endpoint arguments.
ApiInputs ==
    {ToolInput(t, <<>>, DefaultSchemaPath, e, ms) :
        t \in TableNames, e \in Endpoints, ms \in MethodLists}

CompilerInputs == SchemaInputs \cup ApiInputs

\* Inputs of the scenario that compiles repeatedly: the same table with other
\* fields, path, endpoint and methods, and another table.
RecompileInputs ==
    { ToolInput(NameAlbums, <<Field(NameTitle, "varchar", <<"notNull">>)>>,
                DefaultSchemaPath, NameAlbums, <<"GET">>),
      ToolInput(NameAlbums, <<>>, AltSchemaPath, EndpointPopularalbums,
                <<"GET", "POST">>),
      ToolInput(NamePopularAlbumsSnake,
                <<Field(NameTitle, "varchar", <<"notNull">>)>>,
                DefaultSchemaPath, EndpointPopularAlbums, <<"GET">>),
      ToolInput(NamePopularAlbumsSnake, <<>>, DefaultSchemaPath,
                EndpointPopularalbums, <<>>) }

\* The variables of a query run.
queryVars ==
    <<request, analysis, state, stepCount, lastObservation, dryRun,
      interrupted, fsVars>>

\* The variables no compiler scenario changes.
runVars == <<queryVars, unitVars>>

\* What a call leaves for inspection: the tool, its arguments, the success
\* flag, error and path of its result, and what the file at that path holds
\* after the call.
CallRecord(tool, ok, path) ==
    [tool |-> tool, input |-> input, success |-> ok, path |-> path,
     error |-> IF ok THEN "none" ELSE "EACCES",
     content |-> IF ok THEN files'[path] ELSE <<>>]

\* The call is recorded and counted.
Recorded(call) ==
    /\ last' = call
    /\ first' = IF first = NoCall THEN call ELSE first
    /\ callsLeft' = callsLeft - 1
    /\ UNCHANGED <<input, diskWritable, runVars>>

\* create_schema.execute({ tableName, fields, schemaPath }): the content is
\* built and written; a throwing write is caught and returned as a failure.
CreateSchemaCall ==
    /\ callsLeft > 0
    /\ LET path == SchemaFilePath(input.schemaPath, input.tableName)
       IN  /\ files' = IF diskWritable
                       THEN WriteFileSync(files, path,
                                SchemaContent(input.tableName, input.fields))
                       ELSE files
           /\ Recorded(CallRecord("create_schema", diskWritable, path))

RECURSIVE MultipleSchemasFiles(_, _, _)
\* create_multiple_schemas: the loop over the entities, each in its own try
MultipleSchemasFiles(fs, writable, entities) ==
    IF entities = <<>> THEN fs
    ELSE LET entity == Head(entities)
             written ==
                 IF writable
                 THEN WriteFileSync(fs, SchemaFilePathMultiple(entity.name),
                          SchemaContentMultiple(entity.name, entity.fields))
                 ELSE fs
         IN  MultipleSchemasFiles(written, writable, Tail(entities))

\* create_multiple_schemas.execute({ entities }) with the one entity of the
\* input; success is results.every((r) => r.success).
CreateMultipleSchemasCall ==
    /\ callsLeft > 0
    /\ LET entities == <<[name |-> input.tableName, fields |-> input.fields]>>
       IN  /\ files' = MultipleSchemasFiles(files, diskWritable, entities)
           /\ Recorded(CallRecord("create_multiple_schemas", diskWritable,
                           SchemaFilePathMultiple(input.tableName)))

\* create_api_endpoint.execute({ endpoint, methods, tableName })
CreateApiEndpointCall ==
    /\ callsLeft > 0
    /\ LET path == EndpointFilePath(input.endpoint)
       IN  /\ files' = IF diskWritable
                       THEN WriteFileSync(files, path,
                                ApiContent(input.methods, input.tableName))
                       ELSE files
           /\ Recorded(CallRecord("create_api_endpoint", diskWritable, path))

\* create_api_client_hook.execute({ endpoint, tableName })
CreateApiClientHookCall ==
    /\ callsLeft > 0
    /\ LET path == HookFilePath(input.endpoint)
       IN  /\ files' = IF diskWritable
                       THEN WriteFileSync(files, path,
                                HookContent(input.endpoint, input.tableName))
                       ELSE files
           /\ Recorded(CallRecord("create_api_client_hook", diskWritable, path))

\* The next call gets other arguments.
ChangeInput ==
    /\ callsLeft > 0
    /\ first # NoCall
    /\ input' \in RecompileInputs \ {input}
    /\ UNCHANGED <<diskWritable, files, callsLeft, first, last, runVars>>

\* No query run is played.
NoRun ==
    /\ request = <<>>
    /\ dryRun = FALSE
    /\ FreshRun

\* One tool call on one input, on a disk that takes the write or refuses it.
CompileInit ==
    /\ NoRun
    /\ UnitsIdle
    /\ input \in CompilerInputs
    /\ diskWritable \in BOOLEAN
    /\ files = <<>>
    /\ callsLeft = 1
    /\ first = NoCall
    /\ last = NoCall

CompileNext ==
    \/ CreateSchemaCall
    \/ CreateMultipleSchemasCall
    \/ CreateApiEndpointCall
    \/ CreateApiClientHookCall

CompileSpec == CompileInit /\ [][CompileNext]_vars

\* Up to MaxCalls tool calls, the arguments changing in between.
RecompileInit ==
    /\ NoRun
    /\ UnitsIdle
    /\ input \in RecompileInputs
    /\ diskWritable = TRUE
    /\ files = <<>>
    /\ callsLeft = MaxCalls
    /\ first = NoCall
    /\ last = NoCall

RecompileNext ==
    \/ CreateSchemaCall
    \/ CreateMultipleSchemasCall
    \/ CreateApiEndpointCall
    \/ CreateApiClientHookCall
    \/ ChangeInput

RecompileSpec == RecompileInit /\ [][RecompileNext]_vars


(***************************************************************************)
(* The workflow of a run, read off the run's state                         *)
(***************************************************************************)

\* The entities the run has discovered: those of the analyze_request result.
Discovered == {analysis.entities[i].name : i \in 1..Len(analysis.entities)}

\* Lifecycle stage s of entity e has completed.
StageDone(e, s) ==
    CASE s = "schema" -> schemaFile[e]
      [] s = "migration-generate" -> e \in generated
      [] s = "migration-apply" -> e \in applied
      [] s = "endpoint" -> endpointFile[e]
      [] s = "hook" -> hookFile[e]

StageIndex == 1..Len(Stages)

\* Every discovered entity has completed every lifecycle stage.
WorkflowComplete ==
    \A e \in Discovered : \A i \in StageIndex : StageDone(e, Stages[i])

\* No artifact of any entity exists and no migration has run.
NoSideEffect ==
    /\ \A e \in Entities : ~schemaFile[e] /\ ~endpointFile[e] /\ ~hookFile[e]
    /\ generated = {}
    /\ applied = {}

\* Every file that exists before a step exists after it.
FilesKept ==
    \A e \in Entities :
        /\ schemaFile[e] => schemaFile'[e]
        /\ endpointFile[e] => endpointFile'[e]
        /\ hookFile[e] => hookFile'[e]

(***************************************************************************)
(* queryCommand's report of a finished run                                 *)
(***************************************************************************)

\* (verbose || result.steps.length > 3) && result.steps.length > 0
StepsShown(verbose) == (verbose \/ stepCount > 3) /\ stepCount > 0

\* result.steps.forEach: one line per step, holding the step's index, its
\* tool name and its outcome.
ReportLineCount(verbose) == IF StepsShown(verbose) THEN stepCount ELSE 0

\* The (entity, stage) pairs the report is keyed by. A line is keyed by the
\* step index and shows the step's tool name and outcome (with verbose, also
\* a path, table or endpoint of the step's result), so the report lists no
\* lifecycle stage of any entity.
ReportedStages(verbose) ==
    {p \in Entities \X {Stages[i] : i \in StageIndex} : FALSE}

(***************************************************************************)
(* Claims                                                                  *)
(***************************************************************************)

\* C1: the run is never in Done while a discovered entity lacks one of its
\* lifecycle stages, unless the step counter has reached the budget.
C1_NeverDoneIncomplete ==
    (state = "Done" /\ ~WorkflowComplete) => stepCount >= StepBudget

\* C2: a final answer given while a discovered entity is incomplete and the
\* budget is not exhausted does not end the run: the loop appends a
\* corrective observation and is waiting for the engine again.
C2_EarlyStopCorrected ==
    [][(FinalAnswer /\ ~WorkflowComplete /\ stepCount' < StepBudget)
         => (state' = "AwaitingEngine" /\ lastObservation' = "correction")]_vars

\* The run has ended: the process has left the loop for good.
Ended == state \in {"Done", "Failed", "Exited"}

C4_StagesInOrder ==
    \A e \in Entities : \A i \in StageIndex :
        (i > 1 /\ StageDone(e, Stages[i])) => StageDone(e, Stages[i - 1])

\* C5: in a dry run no side-effecting tool is executed, so no artifact is
\* written and no migration has run.
C5_DryRunNoSideEffect == dryRun => NoSideEffect

\* C6: a step that appends a schema-validation error has executed no tool (no
\* file or migration changes), is counted, and leaves the run waiting for the
\* engine unless the budget is reached; it never puts the run in Failed.
C6_InvalidInputRecoverable ==
    [][(lastObservation' = "tool-error"
          /\ (stepCount' # stepCount \/ lastObservation # "tool-error"))
         => /\ fsVars' = fsVars
            /\ analysis' = analysis
            /\ stepCount' = stepCount + 1
            /\ state' = IF stepCount' = StepBudget THEN "Done" ELSE "AwaitingEngine"]_vars

\* C6 witness: a validation error was observed and the loop waits for the
\* engine's next call.
C6_Witness ==
    lastObservation = "tool-error" /\ state = "AwaitingEngine" /\ stepCount > 1

C8_InterruptStopsSteps ==
    [][interrupted => (stepCount' = stepCount /\ fsVars' = fsVars)]_vars

\* C8 witness: the interrupt arrived after steps had written files.
C8_Witness ==
    interrupted /\ stepCount > 1 /\ \E e \in Entities : schemaFile[e] /\ endpointFile[e]

\* The lower-cased request contains the trigger of rule k of the table.
TriggerIn(k, req) ==
    CASE k = 1 -> Includes(req, TriggerMadeForYou)
      [] k = 2 -> Includes(req, TriggerPopularAlbums) \/ Includes(req, TriggerPopularAlbum)
      [] k = 3 -> Includes(req, TriggerRecentlyPlayed) \/ Includes(req, TriggerRecent)

\* The entity name rule k of the table stands for.
TriggerEntity(k) ==
    CASE k = 1 -> "made_for_you_playlists"
      [] k = 2 -> "popular_albums"
      [] k = 3 -> "recently_played_songs"

\* The rules whose trigger the request contains.
TriggersMatched(text) == {k \in 1..3 : TriggerIn(k, ToLowerCase(text))}

\* C9: for a request containing two or more triggers the result holds one
\* entity per matched trigger and nothing else: its length is the number of
\* matched triggers, the names are pairwise different, each is the entity of a
\* matched trigger, and the fallback entity albums is absent; with exactly
\* the triggers "made for you" and "popular album(s)" the result is
\* made_for_you_playlists, popular_albums.
C9_OneEntityPerTrigger ==
    (analysis # NoAnalysis /\ Cardinality(TriggersMatched(request)) >= 2)
        => LET names == EntityNames(analysis)
               matched == TriggersMatched(request)
           IN  /\ Len(names) = Cardinality(matched)
               /\ analysis.entitiesFound = Cardinality(matched)
               /\ \A i, j \in 1..Len(names) : names[i] = names[j] => i = j
               /\ {names[i] : i \in 1..Len(names)} = {TriggerEntity(k) : k \in matched}
               /\ matched = {1, 2}
                     => names = <<"made_for_you_playlists", "popular_albums">>

\* C9 witness: the request naming 'Made for you' and 'Popular albums', which
\* also holds the generic keyword, has been analysed.
C9_Witness ==
    /\ analysis # NoAnalysis
    /\ request = RequestMadeForYouAndPopular
    /\ TriggersMatched(request) = {1, 2}
    /\ Includes(ToLowerCase(request), KeywordAlbums)

\* The field names of an entity, in order.
FieldNames(entity) == [i \in 1..Len(entity.fields) |-> entity.fields[i].name]

\* C10: "Can you store the recently played songs in a table" yields exactly
\* one entity, recently_played_songs, with the fields title, artist, album,
\* duration, playedAt in that order.
C10_RecentlyPlayedRequest ==
    (analysis # NoAnalysis /\ request = RequestRecentlyPlayed)
        => /\ EntityNames(analysis) = <<"recently_played_songs">>
           /\ analysis.entitiesFound = 1
           /\ FieldNames(analysis.entities[1])
                 = <<"title", "artist", "album", "duration", "playedAt">>

\* C10 witness: that request has been analysed.
C10_Witness == analysis # NoAnalysis /\ request = RequestRecentlyPlayed

\* The lower-cased request contains the generic keyword "album" or "albums".
KeywordIn(text) ==
    \/ Includes(ToLowerCase(text), KeywordAlbum)
    \/ Includes(ToLowerCase(text), KeywordAlbums)

\* The result holds the fallback entity albums.
HasFallback(result) ==
    \E i \in 1..Len(result.entities) : result.entities[i].name = "albums"

\* C11: analyze_request emits the fallback entity albums if and only if no
\* trigger matched and the lower-cased request contains "album" or "albums";
\* the result then holds exactly that one entity, so the fallback never
\* stands beside a trigger-derived entity.
C11_FallbackIffKeywordOnly ==
    analysis # NoAnalysis
        => /\ HasFallback(analysis)
                <=> (TriggersMatched(request) = {} /\ KeywordIn(request))
           /\ HasFallback(analysis)
                => /\ EntityNames(analysis) = <<"albums">>
                   /\ analysis.entitiesFound = 1

\* C11 witness: a request with the keyword in upper case and no trigger has
\* been analysed and the fallback was emitted.
C11_Witness ==
    /\ analysis # NoAnalysis
    /\ HasFallback(analysis)
    /\ TriggersMatched(request) = {}
    /\ Includes(request, FragAlbumsUpper)

\* C12: a request with no trigger and no generic keyword yields a normal
\* result (success true) with an empty entity list and entitiesFound 0.
C12_NothingMatchedIsEmpty ==
    (analysis # NoAnalysis /\ TriggersMatched(request) = {} /\ ~KeywordIn(request))
        => /\ analysis.success = TRUE
           /\ analysis.entities = <<>>
           /\ analysis.entitiesFound = 0

\* C12 witness: a non-empty request matching nothing has been analysed.
C12_Witness ==
    /\ analysis # NoAnalysis
    /\ request # <<>>
    /\ TriggersMatched(request) = {}
    /\ ~KeywordIn(request)

\* The prefix is the beginning of the line.
StartsWith(line, prefix) ==
    /\ Len(prefix) <= Len(line)
    /\ SubSeq(line, 1, Len(prefix)) = prefix

\* A line of the table definition that declares a column.
IsColumnLine(line) == StartsWith(line, TxtIndent)

\* The column lines of a generated schema, in order.
Columns(content) == SelectSeq(content, IsColumnLine)

\* The name a column line declares: the text between the indent and the colon.
ColumnName(line) ==
    LET head == Head(Split(line, ":")) IN SubSeq(head, 3, Len(head))

\* The latest call is a call of one of the two schema tools.
SchemaCall == last.tool \in {"create_schema", "create_multiple_schemas"}

\* The column names the tools add themselves.
ReservedNames == {NameId, NameCreatedAt, NameUpdatedAt}

\* C13: a generated schema has exactly one primary-key column, exactly one
\* createdAt and one updatedAt column, and its columns are the user fields
\* in order followed by the three implicit columns.
C13_ImplicitColumnsLast ==
    (SchemaCall /\ last.success)
        => LET cols == Columns(last.content)
               names == [i \in 1..Len(cols) |-> ColumnName(cols[i])]
               n == Len(last.input.fields)
           IN  /\ Cardinality({i \in 1..Len(cols) :
                                  Includes(cols[i], MarkPrimaryKey)}) = 1
               /\ Cardinality({i \in 1..Len(cols) : names[i] = NameCreatedAt}) = 1
               /\ Cardinality({i \in 1..Len(cols) : names[i] = NameUpdatedAt}) = 1
               /\ Len(cols) = n + 3
               /\ \A i \in 1..n : names[i] = last.input.fields[i].name
               /\ {names[i] : i \in (n + 1)..Len(cols)} = ReservedNames

\* C14: a schema call with a field named id, createdAt or updatedAt returns
\* a naming-conflict failure and leaves no file at its path.
C14_ReservedNameRejected ==
    (SchemaCall /\ \E i \in 1..Len(last.input.fields) :
                       last.input.fields[i].name \in ReservedNames)
        => /\ last.success = FALSE
           /\ last.error = "naming-conflict"
           /\ last.path \notin DOMAIN files

\* The column of a type by the five-row table, every other type giving text().
TableColumn(type) ==
    CASE type = "varchar" -> ColVarchar
      [] type = "text" -> ColText
      [] type = "integer" -> ColInteger
      [] type = "boolean" -> ColBoolean
      [] type = "timestamp" -> ColTimestamp
      [] OTHER -> ColText

\* The table with the two further rows of create_schema: string and number.
TableColumnWithAliases(type) ==
    CASE type = "string" -> ColVarchar
      [] type = "number" -> ColInteger
      [] OTHER -> TableColumn(type)

\* The line declares the field with the column: indent, name, colon, column,
\* then a marker or the closing comma.
DeclaresColumn(line, field, column) ==
    LET prefix == TxtIndent \o field.name \o TxtColon \o column
    IN  /\ StartsWith(line, prefix)
        /\ Len(line) > Len(prefix)
        /\ line[Len(prefix) + 1] \in {".", ","}

\* The line of user field i in a generated schema: the implicit id column
\* comes first.
UserColumn(content, i) == Columns(content)[i + 1]

\* C15 as stated: in both schema tools every field's column follows the
\* five-row table, every other type string gives text(), and no type string
\* makes the call fail.
C15_TypeTable ==
    SchemaCall
        => /\ last.success = diskWritable
           /\ last.success
                => \A i \in 1..Len(last.input.fields) :
                       DeclaresColumn(UserColumn(last.content, i),
                                      last.input.fields[i],
                                      TableColumn(last.input.fields[i].type))

\* C15 amended: create_multiple_schemas follows the five-row table;
\* create_schema follows it with string as varchar(255) and number as
\* integer() added; every other type string gives text(), and no type string
\* makes the call fail.
C15_TypeTableWithAliases ==
    SchemaCall
        => /\ last.success = diskWritable
           /\ last.success
                => \A i \in 1..Len(last.input.fields) :
                       LET type == last.input.fields[i].type
                       IN  DeclaresColumn(UserColumn(last.content, i),
                               last.input.fields[i],
                               IF last.tool = "create_schema"
                               THEN TableColumnWithAliases(type)
                               ELSE TableColumn(type))

\* C15 witness: create_schema has compiled a field of an unlisted type beside
\* a field of type string.
C15_Witness ==
    /\ last.tool = "create_schema"
    /\ last.success
    /\ \E i, j \in 1..Len(last.input.fields) :
           /\ last.input.fields[i].type = "json"
           /\ last.input.fields[j].type = "string"

\* The marker of a constraint.
ConstraintMarker(constraint) ==
    CASE constraint = "notNull" -> MarkNotNull
      [] constraint = "primaryKey" -> MarkPrimaryKey
      [] constraint = "unique" -> MarkUnique

\* C16: in a generated schema the line of user field i declares field i, and
\* after its column come the markers of its constraints, one per listed
\* constraint and in the listed order, then the comma.
C16_MarkersInOrder ==
    (SchemaCall /\ last.success)
        => \A i \in 1..Len(last.input.fields) :
               LET field == last.input.fields[i]
                   column == IF last.tool = "create_schema"
                             THEN TableColumnWithAliases(field.type)
                             ELSE TableColumn(field.type)
               IN  UserColumn(last.content, i)
                       = TxtIndent \o field.name \o TxtColon \o column
                           \o Flatten([k \in 1..Len(field.constraints) |->
                                          ConstraintMarker(field.constraints[k])])
                           \o TxtComma

\* C17: when the latest call is the first call's tool on the first call's
\* arguments, the file it wrote holds what the first call's file held,
\* whatever was compiled in between.
C17_SameInputSameContent ==
    (first # NoCall /\ last.tool = first.tool /\ last.input = first.input)
        => /\ last.path = first.path
           /\ last.content = first.content

\* C17 witness: three calls were made, all to one path, and the third
\* repeats the first.
C17_Witness ==
    /\ callsLeft = 0
    /\ first # NoCall
    /\ last.tool = first.tool
    /\ last.input = first.input
    /\ last.input.fields # <<>>
    /\ Cardinality(DOMAIN files) = 1

\* The artifact kind a tool generates.
Kind(tool) ==
    CASE tool \in {"create_schema", "create_multiple_schemas"} -> "schema"
      [] tool = "create_api_endpoint" -> "endpoint"
      [] tool = "create_api_client_hook" -> "hook"

\* C18: two calls generating the same kind of artifact write to the same
\* path if and only if they are given the same table name.
C18_PathFromNameAndKind ==
    (first # NoCall /\ Kind(first.tool) = Kind(last.tool))
        => (first.input.tableName = last.input.tableName
                <=> first.path = last.path)

\* The canonical name of a label: lower case, words joined by underscores.
CanonicalName(label) ==
    [i \in 1..Len(label) |-> IF label[i] = " " THEN "_" ELSE LowerChar(label[i])]

\* The PascalCase form of a canonical name.
PascalCase(canonical) == JoinCapitalized(Split(canonical, "_"))

\* C19: the table a schema declares is named by the canonical name of the
\* label given as tableName, so that labels differing in case declare the
\* same table; the declared type is named by the PascalCase form; the hook is
\* named use followed by the PascalCase form.
C19_CanonicalIdentifiers ==
    LET canonical == CanonicalName(last.input.tableName)
    IN  /\ (last.tool = "create_schema" /\ last.success)
              => /\ last.content[3]
                        = TxtExportConst \o canonical \o TxtPgTableS
                             \o canonical \o TxtOpenS
                 /\ \E i \in 1..Len(last.content) :
                        last.content[i]
                            = TxtExportType \o PascalCase(canonical) \o TxtTypeof
                                 \o canonical \o TxtInferSelect
        /\ (last.tool = "create_api_client_hook" /\ last.success)
              => last.content[4]
                    = TxtExportFunction \o TxtUse \o PascalCase(canonical)
                         \o TxtHookArgs

\* The number of handlers of the method in a generated endpoint.
HandlerCount(content, method) ==
    Cardinality({i \in 1..Len(content) : content[i] = HandlerSignature(method)})

\* C20: a generated endpoint holds exactly one handler of every requested
\* method and none of any other method.
C20_OneHandlerPerMethod ==
    (last.tool = "create_api_endpoint" /\ last.success)
        => \A m \in Methods :
               HandlerCount(last.content, m)
                   = IF \E i \in 1..Len(last.input.methods) :
                            last.input.methods[i] = m
                     THEN 1 ELSE 0

(***************************************************************************)
(* The route module create_api_endpoint generates, serving requests on its *)
(* table.                                                                  *)
(***************************************************************************)

\* The most rows the table of a route scenario gets.
MaxRows == 2

\* The ids the serial column hands out in a scenario.
RowIds == 1..MaxRows

\* The values a row is given by a request body.
RowValues == {"a", "b"}

\* The decimal texts of the ids.
IdTexts == <<"1", "2", "3", "4">>

\* searchParams.get('id'): absent, empty, or the text of an id
IdParams == {"none", ""} \cup {IdTexts[i] : i \in RowIds}

\* parseInt(id): the number of a decimal text; 0 stands for NaN, which is
\* the id of no row.
ParseInt(id) ==
    IF \E i \in 1..Len(IdTexts) : IdTexts[i] = id
    THEN CHOOSE i \in 1..Len(IdTexts) : IdTexts[i] = id
    ELSE 0

\* Mutant of IdMissing: the test of the id parameter is left out.
IdMissingNever(id) == FALSE

\* !id: the parameter is absent or the empty string
IdMissing(id) == id \in {"none", ""}

\* result[0] || null for the rows with the id
RowOrNull(table, n) ==
    IF n \in DOMAIN table
    THEN [kind |-> "row", id |-> n, value |-> table[n]]
    ELSE [kind |-> "null"]

\* The handler has answered: the response is recorded with its request.
Responded(method, id, status, body) ==
    /\ route' = [route EXCEPT !.response =
                    [method |-> method, id |-> id, status |-> status, body |-> body]]
    /\ UNCHANGED <<queryVars, compVars, readOnly, hook, migration, spinner>>

\* The handler has changed the table and answered.
Stored(table, nextId, method, id, status, body) ==
    /\ route' = [route EXCEPT !.table = table, !.nextId = nextId,
                    !.response =
                        [method |-> method, id |-> id, status |-> status,
                         body |-> body]]
    /\ UNCHANGED <<queryVars, compVars, readOnly, hook, migration, spinner>>

\* A storage call that throws is caught and answered with status 500.
Failed500(method, id) == Responded(method, id, 500, [kind |-> "error"])

\* export async function GET: with an id the first row of that id or null,
\* without one all rows, both with the default status 200.
HandleGet(id, dbUp) ==
    /\ route.deployed
    /\ IF ~dbUp THEN Failed500("GET", id)
       ELSE IF ~IdMissing(id)
       THEN Responded("GET", id, 200, RowOrNull(route.table, ParseInt(id)))
       ELSE Responded("GET", id, 200, [kind |-> "rows", rows |-> route.table])

\* export async function POST: the body is inserted under the next serial id
\* and returned with status 201.
HandlePost(value, dbUp) ==
    /\ route.deployed
    /\ route.nextId \in RowIds
    /\ IF ~dbUp THEN Failed500("POST", "none")
       ELSE LET n == route.nextId
                table == [i \in DOMAIN route.table \cup {n} |->
                             IF i = n THEN value ELSE route.table[i]]
            IN  Stored(table, n + 1, "POST", "none", 201,
                       [kind |-> "row", id |-> n, value |-> value])

\* export async function PUT: without id status 400 before any storage
\* call; with one the rows of that id are updated and the first returned.
HandlePut(id, value, dbUp) ==
    /\ route.deployed
    /\ IF IdMissing(id) THEN Responded("PUT", id, 400, [kind |-> "error"])
       ELSE IF ~dbUp THEN Failed500("PUT", id)
       ELSE LET n == ParseInt(id)
                table == [i \in DOMAIN route.table |->
                             IF i = n THEN value ELSE route.table[i]]
            IN  Stored(table, route.nextId, "PUT", id, 200, RowOrNull(table, n))

\* export async function DELETE: without id status 400 before any storage
\* call; with one the rows of that id are deleted and success is returned.
HandleDelete(id, dbUp) ==
    /\ route.deployed
    /\ IF IdMissing(id) THEN Responded("DELETE", id, 400, [kind |-> "error"])
       ELSE IF ~dbUp THEN Failed500("DELETE", id)
       ELSE LET n == ParseInt(id)
                table == [i \in DOMAIN route.table \ {n} |-> route.table[i]]
            IN  Stored(table, route.nextId, "DELETE", id, 200,
                       [kind |-> "success"])

\* A route module with the four handlers on an empty table.
RouteInit ==
    /\ NoRun
    /\ CompilerIdle
    /\ readOnly = {}
    /\ hook = NoHook
    /\ migration = NoMigration
    /\ spinner = NoSpinner
    /\ route = [deployed |-> TRUE, table |-> <<>>, nextId |-> 1,
                response |-> [method |-> "none", id |-> "none", status |-> 0,
                              body |-> [kind |-> "none"]]]

RouteNext ==
    \/ \E id \in IdParams, dbUp \in BOOLEAN : HandleGet(id, dbUp)
    \/ \E value \in RowValues, dbUp \in BOOLEAN : HandlePost(value, dbUp)
    \/ \E id \in IdParams, value \in RowValues, dbUp \in BOOLEAN :
           HandlePut(id, value, dbUp)
    \/ \E id \in IdParams, dbUp \in BOOLEAN : HandleDelete(id, dbUp)

RouteSpec == RouteInit /\ [][RouteNext]_vars

\* C21: a GET that reaches the table answers: without id, all rows with
\* status 200; with the id of a row, that row with status 200; with an id
\* of no row, a not-found status and no success status.
C21_GetNotFound ==
    [][(route'.response.method = "GET" /\ route'.response.status # 500)
          => LET id == route'.response.id
                 n == ParseInt(id)
             IN  IF id \in {"none", ""}
                 THEN /\ route'.response.status = 200
                      /\ route'.response.body = [kind |-> "rows", rows |-> route.table]
                 ELSE IF n \in DOMAIN route.table
                 THEN /\ route'.response.status = 200
                      /\ route'.response.body
                            = [kind |-> "row", id |-> n, value |-> route.table[n]]
                 ELSE route'.response.status = 404]_vars

\* C22: a PUT or DELETE without the id parameter is answered with status
\* 400 and leaves the table as it was.
C22_MissingIdRejected ==
    [][(route'.response.method \in {"PUT", "DELETE"}
           /\ route'.response.id \in {"none", ""})
          => /\ route'.response.status = 400
             /\ route'.table = route.table]_vars

\* C22 witness: a DELETE without id was answered with 400 on a table that
\* holds rows.
C22_Witness ==
    /\ route.deployed
    /\ route.response.method = "DELETE"
    /\ route.response.id = "none"
    /\ route.response.status = 400
    /\ DOMAIN route.table # {}

\* ---------------------------------------------------------------------------
\* The React hook generated by create_api_client_hook, mounted in a component.
\* hook.data, hook.loading and hook.error are the three useState cells;
\* hook.inflight holds the calls whose fetch has been issued and has not yet
\* settled; hook.event is the last thing that happened to the hook.
\* ---------------------------------------------------------------------------

MaxData == 2

MaxInflight == 1

ItemIds == 1..MaxData

ItemValues == {"a", "b"}

Items == [id : ItemIds, value : ItemValues]

\* What the server can answer to the list request.
ServerLists ==
    {<<>>} \cup {<<[id |-> 1, value |-> v]>> : v \in ItemValues}
           \cup {<<[id |-> 1, value |-> "a"], [id |-> 2, value |-> v]>> : v \in ItemValues}

\* How a fetch settles: an ok response, a non-ok response, or a rejected
\* promise (network failure).
Outcomes == {"ok", "notok", "rejected"}

SucceededAlways(outcome) == TRUE

\* `await fetch(...)` did not reject and `response.ok` is true: the code
\* after `if (!response.ok) throw` is reached.
Succeeded(outcome) == outcome = "ok"

ErrorMessage(op, outcome) ==
    IF outcome = "rejected" THEN "Network error"
    ELSE IF op = "fetch" THEN "Failed to fetch data"
    ELSE IF op = "create" THEN "Failed to create item"
    ELSE IF op = "update" THEN "Failed to update item"
    ELSE "Failed to delete item"

\* prev.map(item => item.id === id ? updatedItem : item)
MapReplace(data, id, updatedItem) ==
    [i \in DOMAIN data |-> IF data[i].id = id THEN updatedItem ELSE data[i]]

\* prev.filter(item => item.id !== id)
FilterOut(data, id) ==
    SelectSeq(data, LAMBDA item : item.id # id)

HookEvent(op, phase, outcome) ==
    [op |-> op, phase |-> phase, outcome |-> outcome]

HookUnchanged ==
    UNCHANGED <<queryVars, compVars, readOnly, route, migration, spinner>>

\* The call is issued: its fetch is in flight.
Issue(call, cells) ==
    /\ Cardinality(hook.inflight) < MaxInflight
    /\ call \notin hook.inflight
    /\ hook' = [cells EXCEPT !.inflight = hook.inflight \cup {call},
                             !.event = HookEvent(call.op, "start", "none")]
    /\ HookUnchanged

\* fetchData up to its first await: setLoading(true), then the request.
FetchStart ==
    Issue([op |-> "fetch"], [hook EXCEPT !.loading = TRUE])

\* useEffect(() => { fetchData(); }, []) after the first render.
UseEffect ==
    /\ hook.mounted
    /\ ~hook.effectRun
    /\ Issue([op |-> "fetch"], [hook EXCEPT !.loading = TRUE, !.effectRun = TRUE])

\* refetch: fetchData called by the component.
Refetch ==
    /\ hook.mounted
    /\ hook.effectRun
    /\ FetchStart

\* fetchData after its await: setData and setError(null) on success, setError
\* in the catch block, setLoading(false) in the finally block.
FetchSettle(result, outcome) ==
    /\ [op |-> "fetch"] \in hook.inflight
    /\ hook' = [hook EXCEPT
                  !.inflight = hook.inflight \ {[op |-> "fetch"]},
                  !.data = IF Succeeded(outcome) THEN result ELSE hook.data,
                  !.error = IF Succeeded(outcome) THEN "null"
                            ELSE ErrorMessage("fetch", outcome),
                  !.loading = FALSE,
                  !.fetched = TRUE,
                  !.event = HookEvent("fetch", "settle", outcome)]
    /\ HookUnchanged

\* createItem up to its await.
CreateStart(value) ==
    /\ hook.mounted
    /\ hook.effectRun
    /\ Len(hook.data) < MaxData
    /\ Issue([op |-> "create", value |-> value], hook)

\* createItem after its await: the item answered by the server is appended
\* on success; otherwise the error is rethrown to the caller.
CreateSettle(call, newId, outcome) ==
    /\ call \in hook.inflight
    /\ call.op = "create"
    /\ Len(hook.data) < MaxData
    /\ hook' = [hook EXCEPT
                  !.inflight = hook.inflight \ {call},
                  !.data = IF Succeeded(outcome)
                           THEN Append(hook.data, [id |-> newId, value |-> call.value])
                           ELSE hook.data,
                  !.event = HookEvent("create", "settle", outcome)]
    /\ HookUnchanged

\* updateItem up to its await.
UpdateStart(id, value) ==
    /\ hook.mounted
    /\ hook.effectRun
    /\ Issue([op |-> "update", id |-> id, value |-> value], hook)

\* updateItem after its await.
UpdateSettle(call, outcome) ==
    /\ call \in hook.inflight
    /\ call.op = "update"
    /\ hook' = [hook EXCEPT
                  !.inflight = hook.inflight \ {call},
                  !.data = IF Succeeded(outcome)
                           THEN MapReplace(hook.data, call.id,
                                           [id |-> call.id, value |-> call.value])
                           ELSE hook.data,
                  !.event = HookEvent("update", "settle", outcome)]
    /\ HookUnchanged

\* deleteItem up to its await.
DeleteStart(id) ==
    /\ hook.mounted
    /\ hook.effectRun
    /\ Issue([op |-> "delete", id |-> id], hook)

\* deleteItem after its await.
DeleteSettle(call, outcome) ==
    /\ call \in hook.inflight
    /\ call.op = "delete"
    /\ hook' = [hook EXCEPT
                  !.inflight = hook.inflight \ {call},
                  !.data = IF Succeeded(outcome)
                           THEN FilterOut(hook.data, call.id)
                           ELSE hook.data,
                  !.event = HookEvent("delete", "settle", outcome)]
    /\ HookUnchanged

HookCalls ==
    {[op |-> "fetch"]}
        \cup {[op |-> "create", value |-> v] : v \in ItemValues}
        \cup {[op |-> "update", id |-> i, value |-> v] : i \in ItemIds, v \in ItemValues}
        \cup {[op |-> "delete", id |-> i] : i \in ItemIds}

\* The three useState initial values, before the effect has run.
HookInit ==
    /\ NoRun
    /\ CompilerIdle
    /\ readOnly = {}
    /\ route = NoRoute
    /\ migration = NoMigration
    /\ spinner = NoSpinner
    /\ hook = [mounted |-> TRUE, effectRun |-> FALSE, fetched |-> FALSE,
               data |-> <<>>, loading |-> TRUE, error |-> "null",
               inflight |-> {}, event |-> HookEvent("none", "none", "none")]

HookNext ==
    \/ UseEffect
    \/ Refetch
    \/ \E result \in ServerLists, outcome \in Outcomes : FetchSettle(result, outcome)
    \/ \E value \in ItemValues : CreateStart(value)
    \/ \E call \in HookCalls, newId \in ItemIds, outcome \in Outcomes :
           CreateSettle(call, newId, outcome)
    \/ \E id \in ItemIds, value \in ItemValues : UpdateStart(id, value)
    \/ \E call \in HookCalls, outcome \in Outcomes : UpdateSettle(call, outcome)
    \/ \E id \in ItemIds : DeleteStart(id)
    \/ \E call \in HookCalls, outcome \in Outcomes : DeleteSettle(call, outcome)

HookSpec == HookInit /\ [][HookNext]_vars

\* C23: a step of create, update or delete that is not the settling of an
\* ok response (the call being issued, a non-ok response, a rejected fetch)
\* leaves the data list exactly as it was.
C23_DataChangesOnlyOnSuccess ==
    [][(/\ hook'.event.op \in {"create", "update", "delete"}
        /\ hook' # hook
        /\ ~(hook'.event.phase = "settle" /\ hook'.event.outcome = "ok"))
          => hook'.data = hook.data]_vars

\* C23 witness: a delete of an item held in the list has settled with a
\* non-ok response, and the list still holds the item.
C23_Witness ==
    /\ hook.mounted
    /\ hook.event = HookEvent("delete", "settle", "notok")
    /\ \E i \in DOMAIN hook.data : hook.data[i].id = 1

\* C24: once an attempt has begun the error of an earlier attempt is no
\* longer exposed, and loading stays true until the first fetch has settled.
C24_ErrorClearedOnAttempt ==
    [][/\ (hook'.event.phase = "start" /\ hook' # hook) => hook'.error = "null"
       /\ ~hook'.fetched => hook'.loading]_vars

\* ---------------------------------------------------------------------------
\* edit_file of the file tools, called on a file system that holds or does not
\* hold the file. The scenario reuses the compiler variables: input is the
\* tool's argument record, files the file system, last the recorded call.
\* ---------------------------------------------------------------------------

\* The longest old_str and new_str of an edit_file call.
MaxText == 2

TextChars == {"a", "b"}

TextsUpTo(n) == UNION {[1..m -> TextChars] : m \in 0..n}

\* notes.md
PathNotes ==
    <<"n","o","t","e","s",".","m","d">>

\* docs/notes.md
PathDocsNotes ==
    <<"d","o","c","s","/","n","o","t","e","s",".","m","d">>

\* docs/index.md
PathDocsIndex ==
    <<"d","o","c","s","/","i","n","d","e","x",".","m","d">>

EditPaths == {PathNotes, PathDocsNotes}

\* old_str is z.string().nullable(): null, or a text.
NullStr == [null |-> TRUE, text |-> <<>>]

Str(text) == [null |-> FALSE, text |-> text]

RECURSIVE JoinWith(_, _)
\* parts.join(sep)
JoinWith(parts, sep) ==
    IF parts = <<>> THEN <<>>
    ELSE IF Len(parts) = 1 THEN Head(parts)
    ELSE Head(parts) \o sep \o JoinWith(Tail(parts), sep)

\* path.split("/").slice(0, -1).join("/")
DirName(path) ==
    LET parts == Split(path, "/")
    IN  JoinWith(SubSeq(parts, 1, Len(parts) - 1), TxtSlash)

\* fs.existsSync(dir): a directory exists when the file system holds a file
\* below it.
DirExists(fs, dir) ==
    \E p \in DOMAIN fs : StartsWith(p, dir \o TxtSlash)

\* The positions of s at which old begins.
MatchPositions(s, old) ==
    {i \in 1..(Len(s) - Len(old) + 1) : SubSeq(s, i, i + Len(old) - 1) = old}

\* The number of places of s where old occurs.
Occurrences(s, old) == Cardinality(MatchPositions(s, old))

\* fileContents.replace(old_str, new_str) with a string pattern: the first
\* occurrence is replaced, and a text without the pattern is returned as it is.
\* (The texts here hold no "$", so new_str has no replacement patterns.)
Replace(s, old, new) ==
    IF MatchPositions(s, old) = {} THEN s
    ELSE LET k == CHOOSE i \in MatchPositions(s, old) :
                      \A j \in MatchPositions(s, old) : i <= j
         IN  SubSeq(s, 1, k - 1) \o new \o SubSeq(s, k + Len(old), Len(s))

EditInput(path, old_str, new_str) ==
    [tool |-> "edit_file", path |-> path, old_str |-> old_str, new_str |-> new_str]

EditInputs ==
    {EditInput(p, o, n) :
        p \in EditPaths,
        o \in {NullStr} \cup {Str(t) : t \in TextsUpTo(MaxText)},
        n \in TextsUpTo(MaxText)}

\* What the file system can hold before the call: the file of the call or not,
\* another file below docs or not.
EditFileSystems(path) ==
    {<<>>} \cup {WriteFileSync(<<>>, PathDocsIndex, <<"a">>)}
           \cup {WriteFileSync(<<>>, path, t) : t \in TextsUpTo(MaxText + 1)}

\* What an edit_file call leaves for inspection: its arguments, whether the
\* file existed and what it held, the result's success and action, whether
\* mkdirSync was called, and what the file holds after the call.
EditRecord(existed, ok, action, mkdir) ==
    [tool |-> "edit_file", input |-> input, existed |-> existed,
     before |-> IF existed THEN files[input.path] ELSE <<>>,
     success |-> ok, action |-> action, mkdir |-> mkdir,
     exists |-> input.path \in DOMAIN files',
     content |-> IF input.path \in DOMAIN files' THEN files'[input.path] ELSE <<>>]

\* edit_file.execute({ path, old_str, new_str })
EditFileCall ==
    /\ callsLeft > 0
    /\ input.tool = "edit_file"
    /\ LET fileExists == input.path \in DOMAIN files
           dir == DirName(input.path)
       IN  IF ~diskWritable
           THEN /\ files' = files
                /\ Recorded(EditRecord(fileExists, FALSE, "none", FALSE))
           ELSE IF fileExists /\ ~input.old_str.null
           THEN /\ files' = WriteFileSync(files, input.path,
                                Replace(files[input.path], input.old_str.text,
                                        input.new_str))
                /\ Recorded(EditRecord(TRUE, TRUE, "edit", FALSE))
           ELSE /\ files' = WriteFileSync(files, input.path, input.new_str)
                /\ Recorded(EditRecord(fileExists, TRUE, "create",
                                dir # <<>> /\ ~DirExists(files, dir)))

\* One edit_file call on one input, on a file system that holds the file
\* or not, on a disk that takes the write or refuses it.
EditInit ==
    /\ NoRun
    /\ UnitsIdle
    /\ input \in EditInputs
    /\ diskWritable \in BOOLEAN
    /\ files \in EditFileSystems(input.path)
    /\ callsLeft = 1
    /\ first = NoCall
    /\ last = NoCall

EditNext == EditFileCall

EditSpec == EditInit /\ [][EditNext]_vars

\* C25: a find-and-replace call (the file exists, old_str is given) whose
\* old_str does not occur exactly once in the file fails and leaves the file
\* as it was; a call that reports success found old_str exactly once and has
\* replaced it.
C25_ReplaceExactlyOnce ==
    (last.tool = "edit_file" /\ last.existed /\ ~last.input.old_str.null)
        => LET n == Occurrences(last.before, last.input.old_str.text)
           IN  /\ n # 1 => (~last.success /\ last.content = last.before)
               /\ last.success =>
                     /\ n = 1
                     /\ last.content = Replace(last.before,
                                           last.input.old_str.text,
                                           last.input.new_str)

\* C26: a successful call reports "create" exactly when the file did not
\* exist before the call and "edit" exactly when it did.
C26_CreateOnlyWhenNew ==
    (last.tool = "edit_file" /\ last.success)
        => /\ last.action = "create" <=> ~last.existed
           /\ last.action = "edit" <=> last.existed

\* ---------------------------------------------------------------------------
\* The migration tools inside a run: run_migration of the database tools
\* (exec of `npx drizzle-kit <action>`) and generate_migration / run_migration
\* of the agent module (spawn of an npm script). The child process writes to
\* stdout and stderr and exits with a code; the tool turns that into its
\* result, which the loop appends as the step's observation.
\* ---------------------------------------------------------------------------

\* Command failed:
TxtCommandFailed ==
    <<"C","o","m","m","a","n","d"," ","f","a","i","l","e","d",":"," ">>

\* npx drizzle-kit
TxtNpxDrizzleKit ==
    <<"n","p","x"," ","d","r","i","z","z","l","e","-","k","i","t"," ">>

\* generate
TxtGenerate ==
    <<"g","e","n","e","r","a","t","e">>

\* migrate
TxtMigrate ==
    <<"m","i","g","r","a","t","e">>

\* push
TxtPush ==
    <<"p","u","s","h">>

TxtNewline ==
    <<"\n">>

\* What the child process wrote to stdout, when it wrote anything.
TxtStdout ==
    <<"1"," ","t","a","b","l","e","s">>

\* What the child process wrote to stderr, when it wrote anything.
TxtStderr ==
    <<"n","o"," ","c","o","n","f","i","g">>

ExitCodes == {0, 1, 127}

ActionText(action) ==
    IF action = "generate" THEN TxtGenerate
    ELSE IF action = "migrate" THEN TxtMigrate
    ELSE TxtPush

\* `npx drizzle-kit ${action}`
DrizzleKitCommand(action) == TxtNpxDrizzleKit \o ActionText(action)

\* The three migration tools and the action their result names.
MigrationTools ==
    {[module |-> "database-tools", name |-> "run_migration", action |-> a] :
        a \in MigrationActions}
      \cup {[module |-> "agent", name |-> "generate_migration",
             action |-> "generate_migration"],
            [module |-> "agent", name |-> "run_migration",
             action |-> "run_migration"]}

ExitOkAlways(code) == TRUE

\* The process exit counts as success: execAsync resolves, `code === 0`.
ExitOk(code) == code = 0

\* error.message of the rejection of execAsync
ExecErrorMessage(action, stderr) ==
    TxtCommandFailed \o DrizzleKitCommand(action) \o TxtNewline \o stderr

\* The value the tool returns.
MigrationResult(tool, code, stdout, stderr) ==
    IF tool.module = "database-tools"
    THEN IF ExitOk(code)
         THEN [success |-> TRUE, output |-> stdout, error |-> stderr,
               action |-> tool.action]
         ELSE [success |-> FALSE, error |-> ExecErrorMessage(tool.action, stderr),
               action |-> tool.action]
    ELSE IF ExitOk(code)
         THEN [success |-> TRUE, output |-> stdout, action |-> tool.action]
         ELSE [success |-> FALSE, error |-> stderr, output |-> stdout,
               action |-> tool.action]

\* The stage of the workflow the tool's process performs.
MigrationStage(tool) ==
    IF tool.action \in {"generate", "generate_migration"} THEN "generate"
    ELSE IF tool.action \in {"migrate", "run_migration"} THEN "migrate"
    ELSE "push"

\* One step of the loop that executes a migration tool: the process runs and
\* exits, the tool returns its result, the step is counted and the result is
\* appended as its observation.
MigrationCall(tool, code, stdout, stderr) ==
    /\ CanStep
    /\ LET result == MigrationResult(tool, code, stdout, stderr)
           stage == MigrationStage(tool)
       IN  /\ migration' = [action |-> tool.action, tool |-> tool, code |-> code,
                            stdout |-> stdout, stderr |-> stderr,
                            result |-> result, step |-> stepCount + 1]
           /\ generated' = IF result.success /\ stage = "generate"
                           THEN generated \cup SchemasOnDisk ELSE generated
           /\ applied' = IF result.success /\ stage = "migrate"
                         THEN applied \cup generated
                         ELSE IF result.success /\ stage = "push"
                         THEN applied \cup SchemasOnDisk
                         ELSE applied
           /\ stepCount' = stepCount + 1
           /\ lastObservation' = Outcome(result.success)
           /\ state' = IF StopWhen(stepCount + 1) THEN "Done" ELSE "AwaitingEngine"
    /\ UNCHANGED <<compVars, readOnly, route, hook, spinner, request, analysis,
                   dryRun, interrupted, schemaFile, endpointFile, hookFile>>

\* A run in which the engine proposes migration calls and read-only calls.
MigrationInit ==
    /\ request = RequestMadeForYouAndPopular
    /\ dryRun = FALSE
    /\ FreshRun
    /\ CompilerIdle
    /\ UnitsIdle

MigrationNext ==
    \/ \E tool \in MigrationTools, code \in ExitCodes,
          stdout \in {<<>>, TxtStdout}, stderr \in {<<>>, TxtStderr} :
           MigrationCall(tool, code, stdout, stderr)
    \/ ReadOnlyToolStep
    \/ FinalAnswer

MigrationSpec == MigrationInit /\ [][MigrationNext]_vars

\* The result holds the text in its output member or in its error member.
Carries(result, text) ==
    \/ "output" \in DOMAIN result /\ Includes(result.output, text)
    \/ "error" \in DOMAIN result /\ Includes(result.error, text)

\* The migration call was the latest step of the run.
MigrationJustRan == migration.action # "none" /\ migration.step = stepCount

\* The result's success flag follows the exit code, the result is the step's
\* observation, and the loop goes on unless the step budget is used up.
MigrationReported ==
    /\ migration.result.success = (migration.code = 0)
    /\ migration.result.action = migration.action
    /\ MigrationJustRan =>
          /\ lastObservation = Outcome(migration.code = 0)
          /\ state = IF stepCount = StepBudget THEN "Done" ELSE "AwaitingEngine"

\* C27 as stated: the result of a process that exited with a non-zero status
\* has success = false and carries what the process wrote to stdout and to
\* stderr; a zero exit gives success = true; the result is the observation
\* the run continues with.
C27_MigrationExitReported ==
    migration.action # "none"
        => /\ MigrationReported
           /\ migration.code # 0 =>
                 /\ Carries(migration.result, migration.stdout)
                 /\ Carries(migration.result, migration.stderr)

\* C27 amended: the result of a failed process carries what the process wrote
\* to stderr; the tools of the agent module carry stdout as well.
C27_MigrationExitReportedStderr ==
    migration.action # "none"
        => /\ MigrationReported
           /\ migration.code # 0 =>
                 /\ Carries(migration.result, migration.stderr)
                 /\ migration.tool.module = "agent"
                       => Carries(migration.result, migration.stdout)

\* C27 witness: `npx drizzle-kit migrate` wrote to both streams and exited
\* with status 1 in the latest step; the run is waiting for the engine.
C27_Witness ==
    /\ migration.action = "migrate"
    /\ migration.code = 1
    /\ migration.stdout = TxtStdout
    /\ migration.stderr = TxtStderr
    /\ MigrationJustRan
    /\ ~migration.result.success
    /\ lastObservation = "failure"
    /\ state = "AwaitingEngine"

\* ---------------------------------------------------------------------------
\* The two schema tools compared as compilers of the same entity.
\* ---------------------------------------------------------------------------

\* The line with every single quote written as a double quote: the two
\* templates quote their string literals differently, which TypeScript reads
\* as the same literal.
SameQuotes(line) ==
    [i \in 1..Len(line) |-> IF line[i] = "'" THEN "\"" ELSE line[i]]

\* The column lines of a generated schema, quotes made alike.
ColumnsSameQuotes(content) ==
    LET cols == Columns(content)
    IN  [i \in 1..Len(cols) |-> SameQuotes(cols[i])]

\* What the other schema tool generates for the arguments of the latest call.
OtherToolContent ==
    IF last.tool = "create_schema"
    THEN SchemaContentMultiple(last.input.tableName, last.input.fields)
    ELSE SchemaContent(last.input.tableName, last.input.fields)

\* C28: for the entity and fields of a successful schema call, the other
\* schema tool emits the same column lines: the same type and marker chain
\* for each field and the same implicit id, createdAt and updatedAt columns.
C28_SchemaToolsEquivalent ==
    (SchemaCall /\ last.success)
        => ColumnsSameQuotes(last.content) = ColumnsSameQuotes(OtherToolContent)

\* ---------------------------------------------------------------------------
\* create_multiple_schemas called with several entities on a disk where the
\* files at the paths of readOnly cannot be written.
\* ---------------------------------------------------------------------------

\* The longest entity list of a create_multiple_schemas call.
MaxEntities == 2

\* The entities handed to the tool.
EntityPool ==
    {[name |-> n, fields |-> fs] :
        n \in {NameAlbums, NamePopularAlbumsSnake},
        fs \in {<<>>, <<Field(NameTitle, "varchar", <<"notNull">>)>>}}

EntityLists == UNION {[1..n -> EntityPool] : n \in 0..MaxEntities}

BatchPaths ==
    {SchemaFilePathMultiple(n) : n \in {NameAlbums, NamePopularAlbumsSnake}}

\* results.push({...}) of the try block and of the catch block
EntityResult(entity, ok, path) ==
    IF ok
    THEN [tableName |-> entity.name, path |-> path, success |-> TRUE]
    ELSE [tableName |-> entity.name, success |-> FALSE, error |-> "EACCES"]

RECURSIVE MultipleSchemasRunStopping(_, _, _)
\* Mutant of MultipleSchemasRun: the loop ends at the first entity that fails.
MultipleSchemasRunStopping(fs, blocked, entities) ==
    IF entities = <<>> THEN [files |-> fs, results |-> <<>>]
    ELSE LET entity == Head(entities)
             path == SchemaFilePathMultiple(entity.name)
         IN  IF path \in blocked
             THEN [files |-> fs, results |-> <<EntityResult(entity, FALSE, path)>>]
             ELSE LET rest == MultipleSchemasRunStopping(
                                  WriteFileSync(fs, path,
                                      SchemaContentMultiple(entity.name, entity.fields)),
                                  blocked, Tail(entities))
                  IN  [files |-> rest.files,
                       results |-> <<EntityResult(entity, TRUE, path)>> \o rest.results]

RECURSIVE MultipleSchemasRun(_, _, _)
\* create_multiple_schemas: `for (const entity of entities)` with the try and
\* catch blocks inside the loop; gives the file system after the loop and the
\* results array.
MultipleSchemasRun(fs, blocked, entities) ==
    IF entities = <<>> THEN [files |-> fs, results |-> <<>>]
    ELSE LET entity == Head(entities)
             path == SchemaFilePathMultiple(entity.name)
             ok == path \notin blocked
             written == IF ok
                        THEN WriteFileSync(fs, path,
                                 SchemaContentMultiple(entity.name, entity.fields))
                        ELSE fs
             rest == MultipleSchemasRun(written, blocked, Tail(entities))
         IN  [files |-> rest.files,
              results |-> <<EntityResult(entity, ok, path)>> \o rest.results]

\* results.filter((r) => r.success).length
TotalCreated(results) ==
    Cardinality({i \in 1..Len(results) : results[i].success})

\* create_multiple_schemas.execute({ entities }): the value returned after
\* the loop, recorded with the arguments.
CreateSchemasBatchCall ==
    /\ callsLeft > 0
    /\ input.tool = "create_multiple_schemas"
    /\ LET run == MultipleSchemasRun(files, readOnly, input.entities)
       IN  /\ files' = run.files
           /\ Recorded([tool |-> "create_multiple_schemas", input |-> input,
                        success |-> \A i \in 1..Len(run.results) :
                                        run.results[i].success,
                        results |-> run.results,
                        totalCreated |-> TotalCreated(run.results),
                        action |-> "create_multiple_schemas",
                        before |-> files])

\* A schema file written by an earlier call.
LineOlder ==
    <<"/","/"," ","o","l","d","e","r">>

\* One call with an entity list; some of the paths cannot be written, and the
\* albums schema may be on disk from an earlier call.
BatchInit ==
    /\ NoRun
    /\ route = NoRoute
    /\ hook = NoHook
    /\ migration = NoMigration
    /\ spinner = NoSpinner
    /\ readOnly \in SUBSET BatchPaths
    /\ input \in {[tool |-> "create_multiple_schemas", entities |-> es] :
                     es \in EntityLists}
    /\ diskWritable = TRUE
    /\ files \in {<<>>, WriteFileSync(<<>>, SchemaFilePathMultiple(NameAlbums),
                                       <<LineOlder>>)}
    /\ callsLeft = 1
    /\ first = NoCall
    /\ last = NoCall

BatchNext == CreateSchemasBatchCall

BatchSpec == BatchInit /\ [][BatchNext]_vars

\* The latest call is a create_multiple_schemas call on an entity list.
BatchCall == last.tool = "create_multiple_schemas"

\* C29: the results of a create_multiple_schemas call have one entry per
\* entity, in order; an entity's entry fails exactly when its own file cannot
\* be written, whatever happened to earlier entities; totalCreated counts the
\* successful entries; success is true exactly when every entry succeeded;
\* the file of every successful entity is on disk after the call, and a file
\* no successful entity wrote is as it was before the call.
C29_EveryEntityProcessed ==
    BatchCall
        => LET es == last.input.entities
               rs == last.results
               path(i) == SchemaFilePathMultiple(es[i].name)
           IN  /\ Len(rs) = Len(es)
               /\ \A i \in 1..Len(es) :
                     /\ rs[i].tableName = es[i].name
                     /\ rs[i].success <=> path(i) \notin readOnly
                     /\ rs[i].success =>
                           /\ path(i) \in DOMAIN files
                           /\ \E j \in i..Len(es) :
                                 /\ es[j].name = es[i].name
                                 /\ files[path(i)] =
                                       SchemaContentMultiple(es[j].name, es[j].fields)
               /\ last.totalCreated
                     = Cardinality({i \in 1..Len(rs) : rs[i].success})
               /\ last.success <=> \A i \in 1..Len(rs) : rs[i].success
               /\ \A p \in DOMAIN last.before :
                     (\A i \in 1..Len(es) : ~(rs[i].success /\ path(i) = p))
                         => (p \in DOMAIN files /\ files[p] = last.before[p])

\* C29 witness: of two entities the first could not be written and the
\* second was written; one schema was created and the call reports failure.
C29_Witness ==
    /\ BatchCall
    /\ Len(last.results) = 2
    /\ ~last.results[1].success
    /\ last.results[2].success
    /\ last.results[2].path \in DOMAIN files
    /\ last.totalCreated = 1
    /\ ~last.success

\* ---------------------------------------------------------------------------
\* A spinner made by createSpinner. The agent module holds two functions of
\* that name: one whose start and stop test isSpinning ("guarded"), and the
\* one of the command line, which has no such flag ("plain"). spinner.timers
\* is the set of interval timers that setInterval made and clearInterval has
\* not cleared; spinner.interval is the handle the closure holds (0: null).
\* ---------------------------------------------------------------------------

\* The most interval timers alive at once.
MaxTimers == 3

\* frames.length
FrameCount == 10

TimerIds == 1..MaxTimers

SpinnerKinds == {"guarded", "plain"}

SpinnerUnchanged ==
    UNCHANGED <<queryVars, compVars, readOnly, route, hook, migration>>

\* setInterval(...): a new timer, whose handle is returned.
FreeTimers == TimerIds \ spinner.timers

NewTimer == CHOOSE t \in FreeTimers : \A u \in FreeTimers : t <= u

\* start()
SpinnerStart ==
    /\ spinner.made
    /\ FreeTimers # {}
    /\ spinner' =
          IF spinner.kind = "guarded" /\ spinner.isSpinning
          THEN [spinner EXCEPT !.lastCall = "start"]
          ELSE [spinner EXCEPT !.isSpinning = TRUE,
                               !.interval = NewTimer,
                               !.timers = spinner.timers \cup {NewTimer},
                               !.lastCall = "start"]
    /\ SpinnerUnchanged

\* The spinner after stop(): the guarded one returns at once when it is not
\* spinning; clearInterval is called on the handle held, if any.
Stopped(s) ==
    IF s.kind = "guarded" /\ ~s.isSpinning
    THEN s
    ELSE [s EXCEPT !.isSpinning = FALSE,
                   !.timers = IF s.interval # 0 THEN s.timers \ {s.interval}
                              ELSE s.timers,
                   !.interval = 0]

\* stop(), and succeed(), fail(), warn(), info(), which call this.stop() and
\* then print a line; the plain spinner has no warn and no info.
SpinnerStop(call) ==
    /\ spinner.made
    /\ call \in {"warn", "info"} => spinner.kind = "guarded"
    /\ spinner' = [Stopped(spinner) EXCEPT !.lastCall = call]
    /\ SpinnerUnchanged

\* The callback of a live timer runs: a frame is drawn and the index moves on.
SpinnerTick(t) ==
    /\ spinner.made
    /\ t \in spinner.timers
    /\ spinner' = [spinner EXCEPT !.frameIndex = (spinner.frameIndex + 1) % FrameCount]
    /\ SpinnerUnchanged

\* createSpinner(text): no timer, not spinning, the first frame.
SpinnerInit ==
    /\ NoRun
    /\ CompilerIdle
    /\ readOnly = {}
    /\ route = NoRoute
    /\ hook = NoHook
    /\ migration = NoMigration
    /\ \E kind \in SpinnerKinds :
          spinner = [made |-> TRUE, kind |-> kind, interval |-> 0,
                     isSpinning |-> FALSE, frameIndex |-> 0, timers |-> {},
                     lastCall |-> "none"]

SpinnerNext ==
    \/ SpinnerStart
    \/ \E call \in {"stop", "succeed", "fail", "warn", "info"} : SpinnerStop(call)
    \/ \E t \in TimerIds : SpinnerTick(t)

SpinnerSpec == SpinnerInit /\ [][SpinnerNext]_vars

\* C30: at most one redraw timer is alive, and none before the first start
\* and after a stop, succeed or fail until the next start.
C30_AtMostOneTimer ==
    /\ Cardinality(spinner.timers) <= 1
    /\ spinner.lastCall \in {"none", "stop", "succeed", "fail"}
          => spinner.timers = {}

====
